---- MODULE Spec2Model ----
(***************************************************************************)
(* Verification model of media-server-duplicate-cleaner.                   *)
(*                                                                         *)
(* Strings are sequences of one-character strings, so that the regular     *)
(* expressions, prefix tests, splits and similarity ratios of the code are *)
(* computed character by character as the code computes them.             *)
(***************************************************************************)
EXTENDS Integers, Sequences, FiniteSets, TLC

(***************************************************************************)
(* Characters and elementary string functions (Python str semantics).      *)
(***************************************************************************)
UPPER == <<"A","B","C","D","E","F","G","H","I","J","K","L","M",
           "N","O","P","Q","R","S","T","U","V","W","X","Y","Z">>

LOWER == <<"a","b","c","d","e","f","g","h","i","j","k","l","m",
           "n","o","p","q","r","s","t","u","v","w","x","y","z">>

DIGITS == {"0","1","2","3","4","5","6","7","8","9"}

IsUpper(c) == \E i \in DOMAIN UPPER : UPPER[i] = c

IsLetter(c) == \E i \in DOMAIN UPPER : UPPER[i] = c \/ LOWER[i] = c

IsDigit(c) == c \in DIGITS

IsAlnum(c) == IsLetter(c) \/ IsDigit(c)

\* \w of the re module: letters, digits and the underscore
IsWord(c) == IsAlnum(c) \/ c = "_"

\* str.lower() on one character
LowerChar(c) == IF IsUpper(c) THEN LOWER[CHOOSE i \in DOMAIN UPPER : UPPER[i] = c] ELSE c

\* str.lower()
Lower(s) == [i \in DOMAIN s |-> LowerChar(s[i])]

\* s[i:] with a 1-based i
From(s, i) == IF i > Len(s) THEN <<>> ELSE SubSeq(s, i, Len(s))

\* lit occurs in s at position i (1-based)
MatchAt(s, lit, i) ==
    /\ i >= 1
    /\ i + Len(lit) - 1 <= Len(s)
    /\ \A k \in 1..Len(lit) : s[i + k - 1] = lit[k]

\* the same, ignoring case (re.IGNORECASE on a literal)
MatchAtCI(s, lit, i) ==
    /\ i >= 1
    /\ i + Len(lit) - 1 <= Len(s)
    /\ \A k \in 1..Len(lit) : LowerChar(s[i + k - 1]) = LowerChar(lit[k])

\* str.startswith
StartsWith(s, lit) == MatchAt(s, lit, 1)

\* the `in` operator on strings: sub in s
Contains(s, sub) == \E i \in 1..(Len(s) - Len(sub) + 1) : MatchAt(s, sub, i)

\* the least element of a non-empty set of integers
Min(S) == CHOOSE x \in S : \A y \in S : x <= y

\* the greatest element of a non-empty set of integers
Max(S) == CHOOSE x \in S : \A y \in S : y <= x

\* the characters of s at the positions K, in order
KeepAt(s, K) ==
    [n \in 1..Cardinality(K) |-> s[CHOOSE i \in K : Cardinality({j \in K : j <= i}) = n]]

\* index of the first occurrence of sub in s at or after position i, 0 when none
FindFrom(s, sub, i) ==
    LET at == { j \in i..(Len(s) - Len(sub) + 1) : MatchAt(s, sub, j) }
    IN  IF at = {} THEN 0 ELSE Min(at)

\* str.replace(old, new), old non-empty
RECURSIVE Replace(_, _, _)
Replace(s, old, new) ==
    LET p == FindFrom(s, old, 1)
    IN  IF p = 0 THEN s
        ELSE SubSeq(s, 1, p - 1) \o new \o Replace(From(s, p + Len(old)), old, new)

\* str.split(sep), sep non-empty: the list of pieces
RECURSIVE Split(_, _)
Split(s, sep) ==
    LET p == FindFrom(s, sep, 1)
    IN  IF p = 0 THEN <<s>>
        ELSE <<SubSeq(s, 1, p - 1)>> \o Split(From(s, p + Len(sep)), sep)

IsSpace(c) == c = " "

\* the positions of s that hold no whitespace
NonSpace(s) == { i \in DOMAIN s : ~IsSpace(s[i]) }

\* str.strip()
Strip(s) == IF NonSpace(s) = {} THEN <<>> ELSE SubSeq(s, Min(NonSpace(s)), Max(NonSpace(s)))

\* ' '.join(s.split()): the words of s joined by one space each, i.e. s without
\* its leading and trailing whitespace and with the last character only of
\* every inner run of whitespace
JoinSplit(s) ==
    LET t == Strip(s)
    IN  KeepAt(t, { i \in DOMAIN t : ~IsSpace(t[i]) \/ ~IsSpace(t[i + 1]) })

(***************************************************************************)
(* Name Normalizer: clean_media_name.                                      *)
(***************************************************************************)
\* r'[\(\[\.](?:19|20)\d{2}[\)\]\.]?' at position i: the length matched, 0 when none
YearMatchLen(s, i) ==
    IF /\ i + 4 <= Len(s)
       /\ s[i] \in {"(", "[", "."}
       /\ \/ (s[i + 1] = "1" /\ s[i + 2] = "9")
          \/ (s[i + 1] = "2" /\ s[i + 2] = "0")
       /\ IsDigit(s[i + 3])
       /\ IsDigit(s[i + 4])
    THEN IF i + 5 <= Len(s) /\ s[i + 5] \in {")", "]", "."} THEN 6 ELSE 5
    ELSE 0

\* the patterns_to_remove list, in the order the code applies them:
\*   lit      a literal                      optdigit  literal then \d?
\*   webdl    web-?dl                        digits    literal then \d*
\*   group    -[a-zA-Z0-9]+$                 digit     literal then [0-9]
\*   word     \b literal \b
patterns_to_remove ==
    <<
       [kind |-> "lit", lit |-> <<"2","1","6","0","p">>],
       [kind |-> "lit", lit |-> <<"1","0","8","0","p">>],
       [kind |-> "lit", lit |-> <<"7","2","0","p">>],
       [kind |-> "lit", lit |-> <<"4","8","0","p">>],
       [kind |-> "lit", lit |-> <<"b","l","u","r","a","y">>],
       [kind |-> "webdl", lit |-> <<"w","e","b">>],
       [kind |-> "lit", lit |-> <<"w","e","b","r","i","p">>],
       [kind |-> "lit", lit |-> <<"h","d","t","v">>],
       [kind |-> "lit", lit |-> <<"d","v","d","r","i","p">>],
       [kind |-> "lit", lit |-> <<"x","2","6","4">>],
       [kind |-> "lit", lit |-> <<"x","2","6","5">>],
       [kind |-> "lit", lit |-> <<"h","e","v","c">>],
       [kind |-> "lit", lit |-> <<"x","v","i","d">>],
       [kind |-> "lit", lit |-> <<"d","i","v","x">>],
       [kind |-> "optdigit", lit |-> <<"a","a","c">>],
       [kind |-> "lit", lit |-> <<"a","c","3">>],
       [kind |-> "lit", lit |-> <<"d","t","s">>],
       [kind |-> "lit", lit |-> <<"h","d","m","a">>],
       [kind |-> "lit", lit |-> <<"r","e","p","a","c","k">>],
       [kind |-> "lit", lit |-> <<"p","r","o","p","e","r">>],
       [kind |-> "lit", lit |-> <<"e","x","t","e","n","d","e","d">>],
       [kind |-> "digits", lit |-> <<"h","d","r">>],
       [kind |-> "lit", lit |-> <<"d","v">>],
       [kind |-> "lit", lit |-> <<"d","o","l","b","y">>],
       [kind |-> "lit", lit |-> <<"a","t","m","o","s">>],
       [kind |-> "group", lit |-> <<"-">>],
       [kind |-> "word", lit |-> <<"d","c">>],
       [kind |-> "lit", lit |-> <<"r","e","m","u","x">>],
       [kind |-> "lit", lit |-> <<"d","u","b","b","e","d">>],
       [kind |-> "word", lit |-> <<"w","s">>],
       [kind |-> "lit", lit |-> <<"r","e","t","a","i","l">>],
       [kind |-> "digit", lit |-> <<"c","d">>],
       [kind |-> "digit", lit |-> <<"d","i","s","c">>],
       [kind |-> "lit", lit |-> <<"c","o","m","p","l","e","t","e">>]
    >>

\* number of consecutive digits of s from position i on
RECURSIVE DigitRun(_, _)
DigitRun(s, i) == IF i <= Len(s) /\ IsDigit(s[i]) THEN 1 + DigitRun(s, i + 1) ELSE 0

\* \b before position i of s (i in 1..Len(s)+1)
WordBoundary(s, i) ==
    LET before == i > 1 /\ IsWord(s[i - 1])
        after  == i <= Len(s) /\ IsWord(s[i])
    IN  before # after

\* length of the match of pattern p at position i of s under re.IGNORECASE,
\* 0 when p does not match there (no pattern matches the empty string)
PatternMatchLen(p, s, i) ==
    LET n == Len(p.lit)
    IN  CASE p.kind = "lit" ->
               IF MatchAtCI(s, p.lit, i) THEN n ELSE 0
          [] p.kind = "webdl" ->
               IF MatchAtCI(s, <<"w","e","b","-","d","l">>, i) THEN 6
               ELSE IF MatchAtCI(s, <<"w","e","b","d","l">>, i) THEN 5
               ELSE 0
          [] p.kind = "optdigit" ->
               IF ~MatchAtCI(s, p.lit, i) THEN 0
               ELSE IF i + n <= Len(s) /\ IsDigit(s[i + n]) THEN n + 1 ELSE n
          [] p.kind = "digits" ->
               IF MatchAtCI(s, p.lit, i) THEN n + DigitRun(s, i + n) ELSE 0
          [] p.kind = "digit" ->
               IF MatchAtCI(s, p.lit, i) /\ i + n <= Len(s) /\ IsDigit(s[i + n])
               THEN n + 1 ELSE 0
          [] p.kind = "group" ->
               IF /\ i < Len(s)
                  /\ s[i] = "-"
                  /\ \A j \in (i + 1)..Len(s) : IsAlnum(s[j])
               THEN Len(s) - i + 1 ELSE 0
          [] p.kind = "word" ->
               IF /\ MatchAtCI(s, p.lit, i)
                  /\ WordBoundary(s, i)
                  /\ WordBoundary(s, i + n)
               THEN n ELSE 0

\* re.sub(r'[\(\[\.](?:19|20)\d{2}[\)\]\.]?', '', s) from position i on: the
\* leftmost match is cut out and the scan goes on behind it
RECURSIVE SubYear(_, _)
SubYear(s, i) ==
    LET at == { j \in i..Len(s) : YearMatchLen(s, j) > 0 }
    IN  IF at = {} THEN From(s, i)
        ELSE SubSeq(s, i, Min(at) - 1) \o SubYear(s, Min(at) + YearMatchLen(s, Min(at)))

\* re.sub(p, '', s, flags=re.IGNORECASE) from position i on
RECURSIVE SubPattern(_, _, _)
SubPattern(p, s, i) ==
    LET at == { j \in i..Len(s) : PatternMatchLen(p, s, j) > 0 }
    IN  IF at = {} THEN From(s, i)
        ELSE SubSeq(s, i, Min(at) - 1)
                 \o SubPattern(p, s, Min(at) + PatternMatchLen(p, s, Min(at)))

\* the loop `for pattern in patterns_to_remove`, from pattern number k on (a
\* name that has become empty stays empty under every further pattern)
RECURSIVE RemovePatterns(_, _)
RemovePatterns(s, k) ==
    IF s = <<>> \/ k > Len(patterns_to_remove) THEN s
    ELSE RemovePatterns(SubPattern(patterns_to_remove[k], s, 1), k + 1)

\* re.sub(r'[._-]', ' ', s)
ReplaceSeparators(s) == [i \in DOMAIN s |-> IF s[i] \in {".", "_", "-"} THEN " " ELSE s[i]]

clean_media_name(name) ==
    Strip(Lower(JoinSplit(ReplaceSeparators(RemovePatterns(SubYear(name, 1), 1)))))

(***************************************************************************)
(* difflib.SequenceMatcher(None, a, b).ratio(), for strings shorter than   *)
(* the 200 characters at which the automatic junk heuristic starts.        *)
(***************************************************************************)
\* length of the common run a[i..], b[j..] inside a[..ahi], b[..bhi]
RECURSIVE RunLen(_, _, _, _, _, _)
RunLen(a, b, i, j, ahi, bhi) ==
    IF i <= ahi /\ j <= bhi /\ a[i] = b[j] THEN 1 + RunLen(a, b, i + 1, j + 1, ahi, bhi) ELSE 0

\* find_longest_match(alo, ahi, blo, bhi) on 1-based inclusive ranges: the
\* longest block, and among the longest the one starting earliest in a, then
\* earliest in b; <<alo, blo, 0>> when there is none
find_longest_match(a, b, alo, ahi, blo, bhi) ==
    LET blocks == { <<i, j, RunLen(a, b, i, j, ahi, bhi)>> : i \in alo..ahi, j \in blo..bhi }
        best   == { x \in blocks : x[3] > 0 /\ \A y \in blocks : y[3] <= x[3] }
    IN  IF best = {} THEN <<alo, blo, 0>>
        ELSE CHOOSE x \in best :
                \A y \in best : x[1] < y[1] \/ (x[1] = y[1] /\ x[2] <= y[2])

\* sum of the sizes of get_matching_blocks(): the longest block, then the
\* pieces to its left and to its right
RECURSIVE MatchingSize(_, _, _, _, _, _)
MatchingSize(a, b, alo, ahi, blo, bhi) ==
    IF alo > ahi \/ blo > bhi THEN 0
    ELSE LET m == find_longest_match(a, b, alo, ahi, blo, bhi)
         IN  IF m[3] = 0 THEN 0
             ELSE m[3] + MatchingSize(a, b, alo, m[1] - 1, blo, m[2] - 1)
                       + MatchingSize(a, b, m[1] + m[3], ahi, m[2] + m[3], bhi)

\* ratio() = 2.0 * matches / (len(a) + len(b)), kept as the pair <<2*matches, length>>
ratio(a, b) == <<2 * MatchingSize(a, b, 1, Len(a), 1, Len(b)), Len(a) + Len(b)>>

\* the comparison written `ratio >= 0.9`
ExceedsThreshold_Inclusive(r) == IF r[2] = 0 THEN TRUE ELSE 10 * r[1] >= 9 * r[2]

\* `ratio > 0.9`: 2*matches/length > 9/10 (the float comparison decides the same
\* for every length below 2^50, the quotient being correctly rounded)
ExceedsThreshold(r) == IF r[2] = 0 THEN TRUE ELSE 10 * r[1] > 9 * r[2]

(***************************************************************************)
(* State.                                                                  *)
(*                                                                         *)
(* Scanner / Similarity Grouper (find_media_dupes.py, src/find_dupes.py):  *)
(*   variant         which of the two scanners runs                        *)
(*   folder_keys     folder_map.keys(), in insertion order                 *)
(*   folder_map      folder name -> list of file paths                     *)
(*   cleaned_folders folder name -> normalized key                         *)
(*   processed       the set `processed`                                   *)
(*   similar_groups  the list `similar_groups`                             *)
(*   current_group   the group being built by the outer loop               *)
(*   gi, gj          positions of the outer and inner loop in folder_keys  *)
(*   gpc             position of find_similar_media_folders                *)
(***************************************************************************)
VARIABLES variant, folder_keys, folder_map, cleaned_folders, processed,
          similar_groups, current_group, gi, gj, gpc

grouperVars == <<variant, folder_keys, folder_map, cleaned_folders, processed,
                 similar_groups, current_group, gi, gj, gpc>>

(***************************************************************************)
(* Scanner main program (find_media_dupes.py):                             *)
(*   root_paths      the directories given on the command line             *)
(*   valid_paths     the list `valid_paths`                                *)
(*   si, sf          the root being scanned and the position in its rglob  *)
(*   report_file     the lines written to the report, <<>> before          *)
(*   scan_exit       the exit status of the process, -1 while it runs      *)
(*   spc             position of main / scan_for_duplicates                *)
(***************************************************************************)
VARIABLES root_paths, valid_paths, si, sf, report_file, scan_exit, spc

scanVars == <<root_paths, valid_paths, si, sf, report_file, scan_exit, spc>>

(***************************************************************************)
(* Parallel scan (scan_for_duplicates of src/find_dupes.py):               *)
(*   futures         one record per submitted scan_directory(path): the    *)
(*                   path, the position in its listing, the worker's own   *)
(*                   folder_map as <<keys, map>>, and whether it returned  *)
(*   merge_order     the futures as_completed has yielded and the main     *)
(*                   thread has merged, in that order                      *)
(*   xpc             position of scan_for_duplicates                       *)
(***************************************************************************)
VARIABLES futures, merge_order, xpc

parallelVars == <<futures, merge_order, xpc>>

(***************************************************************************)
(* The two catalogs (Sonarr: series, Radarr: movies), as the programs that *)
(* query them see them:                                                    *)
(*   catalog         catalog -> what a request to it is answered with      *)
(*   requests_sent   the catalogs requested so far, in order               *)
(***************************************************************************)
VARIABLES catalog, requests_sent

envVars == <<catalog, requests_sent>>

(***************************************************************************)
(* Cleanup Planner (src/cleanup_dupes.py):                                 *)
(*   planner_entry   "main": the script is run on a report file;           *)
(*                   "call": create_cleanup_script is called on groups     *)
(*   report          the lines of the report file                          *)
(*   groups          the list of groups handed to create_cleanup_script    *)
(*   paths_cache     catalog -> _paths_cache of its client object          *)
(*   script          the lines written to the cleanup script               *)
(*   pk              the group create_cleanup_script is at                 *)
(*   ppc             position of the planner                               *)
(***************************************************************************)
VARIABLES planner_entry, report, groups, paths_cache, script, pk, ppc

plannerVars == <<planner_entry, report, groups, paths_cache, script, pk, ppc>>

(***************************************************************************)
(* Official-path resolver (get_official_paths.py):                         *)
(*   loader                 what the name load_protected_dirs is bound to  *)
(*   api_keys               catalog -> whether an API key is configured    *)
(*   docker_mappings        the volume mappings                            *)
(*   dup_report             the text of the duplicate-folders report       *)
(*   sonarr_series_details, radarr_movie_details                           *)
(*                          the entries stored per title, insertion order  *)
(*   folder_to_path_map     folder name -> entry                           *)
(*   root_folders_to_ignore the protected roots                            *)
(*   fetch_result           catalog -> what its fetch returned             *)
(*   gofp_calls             the arguments of every call of                 *)
(*                          get_official_path_for_folder                   *)
(*   results                the list returned by lookup_duplicate_folders  *)
(*   updated_report         the lines of the updated report               *)
(*   rpc                    position of the resolver                       *)
(***************************************************************************)
VARIABLES loader, api_keys, docker_mappings, dup_report, sonarr_series_details,
          radarr_movie_details, folder_to_path_map, root_folders_to_ignore,
          fetch_result, gofp_calls, results, updated_report, rpc

resolverVars == <<loader, api_keys, docker_mappings, dup_report, sonarr_series_details,
                  radarr_movie_details, folder_to_path_map, root_folders_to_ignore,
                  fetch_result, gofp_calls, results, updated_report, rpc>>

nonGrouperVars == <<scanVars, parallelVars, envVars, plannerVars, resolverVars>>

nonScanVars == <<parallelVars, envVars, plannerVars, resolverVars>>

vars == <<grouperVars, scanVars, parallelVars, envVars, plannerVars, resolverVars>>

Catalogs == {"sonarr", "radarr"}

\* no catalog is involved
EnvIdle ==
    /\ catalog = [c \in Catalogs |-> [kind |-> "ok", entries |-> <<>>]]
    /\ requests_sent = <<>>

\* the planner is not running
PlannerIdle ==
    /\ planner_entry = "idle"
    /\ report = <<>>
    /\ groups = <<>>
    /\ paths_cache = [c \in Catalogs |-> [fetched |-> FALSE, paths |-> {}]]
    /\ script = <<>>
    /\ pk = 0
    /\ ppc = "idle"

\* the resolver is not running
ResolverIdle ==
    /\ loader = "undefined"
    /\ api_keys = [c \in Catalogs |-> FALSE]
    /\ docker_mappings = <<>>
    /\ dup_report = <<>>
    /\ sonarr_series_details = <<>>
    /\ radarr_movie_details = <<>>
    /\ folder_to_path_map = <<>>
    /\ root_folders_to_ignore = <<>>
    /\ fetch_result = [c \in Catalogs |-> "not called"]
    /\ gofp_calls = <<>>
    /\ results = <<>>
    /\ updated_report = <<>>
    /\ rpc = "idle"

\* bound on the number of folder names of a folder index
MaxFolders == 3

\* folder names the folder index is drawn from (normalized key, ratio to the others):
N_TopGear == <<"T","o","p",".","G","e","a","r",".","7","2","0","p">>

N_TopGears == <<"T","o","p"," ","G","e","a","r","s">>

N_StopGears == <<"S","t","o","p"," ","G","e","a","r","s">>

N_StarWars == <<"S","t","a","r"," ","W","a","r","s">>

N_StarWars2 == <<"S","t","a","r"," ","W","a","r","s"," ","2">>

N_StarWars1977 == <<"S","t","a","r",".","W","a","r","s",".","(","1","9","7","7",")">>

N_Tag == <<"1","0","8","0","p">>

N_Codec == <<"x","2","6","4">>

N_MovieDc == <<"m","o","v","i","e","_","d","c">>

\* two names whose ratio depends on which of them is the first argument
N_Short == <<"a","a","a","b","a","a","a","a","a","b">>

N_Long == <<"a","b","a","a","b","a","a","a","b","a","a","b">>

\*   Top.Gear.720p -> "top gear"     Top Gears -> "top gears"   (16/17)
\*   Stop Gears    -> "stop gears"   (18/19 to "top gears", 16/18 to "top gear")
\*   Star Wars     -> "star wars"    Star Wars 2 -> "star wars 2"  (18/20, exactly 0.9)
\*   Star.Wars.(1977) -> "star wars"
\*   1080p         -> ""             x264 -> ""
NamePool == {N_TopGear, N_TopGears, N_StopGears, N_StarWars, N_StarWars2,
             N_StarWars1977, N_Tag, N_Codec}

\* folder names at the edges of the normalizer and of the ratio
\*   movie_dc      -> "movie dc"     ("_" is a word character: no \b before "dc")
\*   aaabaaaaab, abaabaaabaab: ratio 14/22 with the short one first, 20/22
\*   with the long one first
EdgeNamePool == {N_MovieDc, N_Short, N_Long, N_Tag}

Variants == {"find_media_dupes", "find_dupes"}

\* the sequences over S without repetition, of length at most n
DistinctSeqs(S, n) ==
    { s \in UNION { [1..k -> S] : k \in 0..n } : \A i, j \in DOMAIN s : s[i] = s[j] => i = j }

\* the one video file a folder of the drawn index holds: /m/<name>/a.mkv
FileIn(name) == <<"/","m","/">> \o name \o <<"/","a",".","m","k","v">>

NoGroup == [base_folder |-> <<>>, similar_folders |-> <<>>,
            similarity_scores |-> <<>>, files |-> <<>>]

\* the scanner's main program is not running
ScanIdle ==
    /\ root_paths = <<>>
    /\ valid_paths = <<>>
    /\ si = 0
    /\ sf = 0
    /\ report_file = <<>>
    /\ scan_exit = -1
    /\ spc = "idle"

\* no parallel scan is running
ParallelIdle ==
    /\ futures = <<>>
    /\ merge_order = <<>>
    /\ xpc = "idle"

(***************************************************************************)
(* Similarity Grouper: find_similar_media_folders, one step per iteration  *)
(* of its loops.                                                           *)
(***************************************************************************)
\* a call of find_similar_media_folders(folder_map) on a drawn folder index
InitGrouper ==
    /\ variant \in Variants
    /\ folder_keys \in DistinctSeqs(NamePool, MaxFolders)
    /\ folder_map = [n \in { folder_keys[i] : i \in DOMAIN folder_keys } |-> <<FileIn(n)>>]
    /\ cleaned_folders = <<>>
    /\ processed = {}
    /\ similar_groups = <<>>
    /\ current_group = NoGroup
    /\ gi = 0
    /\ gj = 0
    /\ gpc = "clean"
    /\ ScanIdle
    /\ ParallelIdle
    /\ EnvIdle
    /\ PlannerIdle
    /\ ResolverIdle

\* a call of find_similar_media_folders(folder_map) on a folder index drawn
\* from the edge names
InitGrouperEdge ==
    /\ variant \in Variants
    /\ folder_keys \in DistinctSeqs(EdgeNamePool, MaxFolders)
    /\ folder_map = [n \in { folder_keys[i] : i \in DOMAIN folder_keys } |-> <<FileIn(n)>>]
    /\ cleaned_folders = <<>>
    /\ processed = {}
    /\ similar_groups = <<>>
    /\ current_group = NoGroup
    /\ gi = 0
    /\ gj = 0
    /\ gpc = "clean"
    /\ ScanIdle
    /\ ParallelIdle
    /\ EnvIdle
    /\ PlannerIdle
    /\ ResolverIdle

\* a truth test that takes every cleaned name, the empty one included
Truthy_EmptyIncluded(clean_name) == TRUE

\* the truth value of a cleaned name (`not clean_name1`, `and clean_name2`):
\* the empty string is false
Truthy(clean_name) == clean_name # <<>>

\* similar_groups = [], processed = set(), cleaned_folders = {folder: clean_media_name(folder) ...}
CleanFolders ==
    /\ gpc = "clean"
    /\ cleaned_folders' = [n \in DOMAIN folder_map |-> clean_media_name(n)]
    /\ processed' = {}
    /\ similar_groups' = <<>>
    /\ gi' = 1
    /\ gpc' = "outer"
    /\ UNCHANGED <<variant, folder_keys, folder_map, current_group, gj>>
    /\ UNCHANGED nonGrouperVars

\* `if folder1 in processed or not clean_name1: continue`
SkipFolder ==
    /\ gpc = "outer"
    /\ gi <= Len(folder_keys)
    /\ folder_keys[gi] \in processed \/ ~Truthy(cleaned_folders[folder_keys[gi]])
    /\ gi' = gi + 1
    /\ UNCHANGED <<variant, folder_keys, folder_map, cleaned_folders, processed,
                   similar_groups, current_group, gj, gpc>>
    /\ UNCHANGED nonGrouperVars

\* current_group = {'base_folder': folder1, ..., 'files': folder_map[folder1]}
OpenGroup ==
    /\ gpc = "outer"
    /\ gi <= Len(folder_keys)
    /\ folder_keys[gi] \notin processed
    /\ Truthy(cleaned_folders[folder_keys[gi]])
    /\ current_group' = [base_folder |-> folder_keys[gi], similar_folders |-> <<>>,
                         similarity_scores |-> <<>>, files |-> folder_map[folder_keys[gi]]]
    /\ gj' = 1
    /\ gpc' = "inner"
    /\ UNCHANGED <<variant, folder_keys, folder_map, cleaned_folders, processed,
                   similar_groups, gi>>
    /\ UNCHANGED nonGrouperVars

\* IsCandidate without the test `folder2 not in processed`
IsCandidate_IgnoringProcessed(folder1, folder2) ==
    /\ folder1 # folder2
    /\ Truthy(cleaned_folders[folder2])

\* `if folder1 != folder2 and folder2 not in processed and clean_name2`
IsCandidate(folder1, folder2) ==
    /\ folder1 # folder2
    /\ folder2 \notin processed
    /\ Truthy(cleaned_folders[folder2])

\* a test that also takes a name similar to a member the group already has
IsSimilar_ThroughMembers(folder1, folder2) ==
    \/ ExceedsThreshold(ratio(cleaned_folders[folder1], cleaned_folders[folder2]))
    \/ \E m \in DOMAIN current_group.similar_folders :
          ExceedsThreshold(ratio(cleaned_folders[current_group.similar_folders[m]],
                                 cleaned_folders[folder2]))

\* `if ratio > 0.9` on the two cleaned names
IsSimilar(folder1, folder2) ==
    ExceedsThreshold(ratio(cleaned_folders[folder1], cleaned_folders[folder2]))

\* one iteration of the inner loop over folder2
CompareFolder ==
    /\ gpc = "inner"
    /\ gj <= Len(folder_keys)
    /\ LET folder1 == folder_keys[gi]
           folder2 == folder_keys[gj]
           r       == ratio(cleaned_folders[folder1], cleaned_folders[folder2])
       IN  IF IsCandidate(folder1, folder2) /\ IsSimilar(folder1, folder2)
           THEN /\ current_group' =
                      [current_group EXCEPT
                          !.similar_folders = Append(@, folder2),
                          !.similarity_scores = Append(@, r),
                          \* find_media_dupes.py extends the list; find_dupes.py does not
                          !.files = IF variant = "find_media_dupes"
                                    THEN @ \o folder_map[folder2] ELSE @]
                \* 'files' is the very list folder_map[folder1]: extending it
                \* extends the bucket of the base
                /\ folder_map' = IF variant = "find_media_dupes"
                                 THEN [folder_map EXCEPT ![folder1] = @ \o folder_map[folder2]]
                                 ELSE folder_map
                /\ processed' = processed \cup {folder2}
           ELSE UNCHANGED <<current_group, folder_map, processed>>
    /\ gj' = gj + 1
    /\ UNCHANGED <<variant, folder_keys, cleaned_folders, similar_groups, gi, gpc>>
    /\ UNCHANGED nonGrouperVars

\* after the inner loop: `if current_group['similar_folders']: processed.add(folder1);
\* similar_groups.append(current_group)`
CloseGroup ==
    /\ gpc = "inner"
    /\ gj > Len(folder_keys)
    /\ IF current_group.similar_folders # <<>>
       THEN /\ processed' = processed \cup {current_group.base_folder}
            /\ similar_groups' = Append(similar_groups, current_group)
       ELSE UNCHANGED <<processed, similar_groups>>
    /\ gi' = gi + 1
    /\ gpc' = "outer"
    /\ UNCHANGED <<variant, folder_keys, folder_map, cleaned_folders, current_group, gj>>
    /\ UNCHANGED nonGrouperVars

\* `return similar_groups`
ReturnGroups ==
    /\ gpc = "outer"
    /\ gi > Len(folder_keys)
    /\ gpc' = "returned"
    /\ UNCHANGED <<variant, folder_keys, folder_map, cleaned_folders, processed,
                   similar_groups, current_group, gi, gj>>
    /\ UNCHANGED nonGrouperVars

NextGrouper ==
    \/ CleanFolders
    \/ SkipFolder
    \/ OpenGroup
    \/ CompareFolder
    \/ CloseGroup
    \/ ReturnGroups

SpecGrouper == InitGrouper /\ [][NextGrouper]_vars

SpecGrouperEdge == InitGrouperEdge /\ [][NextGrouper]_vars

(***************************************************************************)
(* Properties of the Similarity Grouper.                                   *)
(***************************************************************************)
\* the names a group lists: its base, then its similar members
GroupNames(g) == <<g.base_folder>> \o g.similar_folders

\* C1: no folder name occurs twice in the returned groups: over all groups,
\* the bases and the similar members together hold each name at most once
\* (never a base of two groups, a member of two groups, or a base of one group
\* and a member of another).
C1_NoNameInTwoGroups ==
    \A a, b \in DOMAIN similar_groups :
        \A p \in DOMAIN GroupNames(similar_groups[a]) :
            \A q \in DOMAIN GroupNames(similar_groups[b]) :
                GroupNames(similar_groups[a])[p] = GroupNames(similar_groups[b])[q]
                    => (a = b /\ p = q)

\* the call has returned one group, and a name left outside it is as similar
\* to a member of the group as the threshold asks (it would have taken that
\* member into a group of its own, had the member not been processed)
C1_Witness ==
    /\ gpc = "returned"
    /\ Len(similar_groups) = 1
    /\ \E n \in DOMAIN folder_map :
          /\ \A p \in DOMAIN GroupNames(similar_groups[1]) : GroupNames(similar_groups[1])[p] # n
          /\ \E p \in DOMAIN similar_groups[1].similar_folders :
                LET r == ratio(cleaned_folders[n],
                               cleaned_folders[similar_groups[1].similar_folders[p]])
                IN  10 * r[1] > 9 * r[2]

\* the group being built while the inner loop runs, and the groups built before
GroupsSoFar == IF gpc = "inner" THEN Append(similar_groups, current_group) ELSE similar_groups

\* C5: the threshold is strict: every similar member of a group has a ratio
\* to the group's base strictly above 0.9 (a name at exactly 0.9 is not
\* added), and every name the inner loop has passed whose ratio to the base is
\* strictly above 0.9 is processed (added to the group unless it already was).
C5_ThresholdIsStrict ==
    /\ \A a \in DOMAIN GroupsSoFar :
          LET g == GroupsSoFar[a]
          IN  /\ Len(g.similarity_scores) = Len(g.similar_folders)
              /\ \A p \in DOMAIN g.similar_folders :
                    LET r == ratio(cleaned_folders[g.base_folder],
                                   cleaned_folders[g.similar_folders[p]])
                    IN  /\ 10 * r[1] > 9 * r[2]
                        /\ g.similarity_scores[p] = r
    /\ gpc = "inner" =>
          \A k \in 1..(gj - 1) :
              LET r == ratio(cleaned_folders[folder_keys[gi]], cleaned_folders[folder_keys[k]])
              IN  (k # gi /\ cleaned_folders[folder_keys[k]] # <<>> /\ 10 * r[1] > 9 * r[2])
                      => folder_keys[k] \in processed

\* the call has returned a group whose base has, among the other names of the
\* index, one at a ratio of exactly 0.9, left out of the group, and one above
\* 0.9, taken into it
C5_Witness ==
    /\ gpc = "returned"
    /\ \E a \in DOMAIN similar_groups :
          LET g == similar_groups[a]
          IN  /\ g.similar_folders # <<>>
              /\ \E n \in DOMAIN folder_map :
                    LET r == ratio(cleaned_folders[g.base_folder], cleaned_folders[n])
                    IN  /\ n \notin processed
                        /\ cleaned_folders[n] # <<>>
                        /\ 10 * r[1] = 9 * r[2]

\* C13: empty keys are never grouped -- a folder name whose normalized key is
\* the empty string appears in no group built so far and in no returned
\* group, neither as base_folder nor in similar_folders.
C13_EmptyKeysNeverGrouped ==
    \A k \in DOMAIN GroupsSoFar :
        \A i \in DOMAIN GroupNames(GroupsSoFar[k]) :
            cleaned_folders[GroupNames(GroupsSoFar[k])[i]] # <<>>

\* the grouper has returned on an index that holds two names with an empty
\* key (whose ratio is 1.0) next to a name with a non-empty key
C13_Witness ==
    /\ gpc = "returned"
    /\ Len(folder_keys) = 3
    /\ Cardinality({ i \in DOMAIN folder_keys : cleaned_folders[folder_keys[i]] = <<>> }) = 2

(***************************************************************************)
(* Filesystem Scanner: scan_for_duplicates and main of find_media_dupes.py *)
(***************************************************************************)
\* the components of a path (pathlib: empty components do not count)
PathParts(p) == SelectSeq(Split(p, <<"/">>), LAMBDA c : c # <<>>)

\* Path(p).name
PathName(p) == IF PathParts(p) = <<>> THEN <<>> ELSE PathParts(p)[Len(PathParts(p))]

\* filepath.parent.name
get_parent_folder_name(filepath) ==
    LET ps == PathParts(filepath)
    IN  IF Len(ps) >= 2 THEN ps[Len(ps) - 1] ELSE <<>>

\* filepath.parent.parent.name
get_grandparent_folder_name(filepath) ==
    LET ps == PathParts(filepath)
    IN  IF Len(ps) >= 3 THEN ps[Len(ps) - 2] ELSE <<>>

\* Path(p).suffix: the last dot of the name and what follows, unless that dot
\* is the first or the last character of the name
PathSuffix(p) ==
    LET name == PathName(p)
        dots == { i \in DOMAIN name : name[i] = "." }
    IN  IF dots = {} \/ Max(dots) = 1 \/ Max(dots) = Len(name) THEN <<>>
        ELSE SubSeq(name, Max(dots), Len(name))

video_extensions ==
    { <<".","m","k","v">>, <<".","m","p","4">>, <<".","a","v","i">>,
      <<".","m","o","v">>, <<".","w","m","v">>, <<".","m","4","v">> }

\* is_video_file without .lower()
is_video_file_CaseSensitive(filepath) == PathSuffix(filepath) \in video_extensions

is_video_file(filepath) == Lower(PathSuffix(filepath)) \in video_extensions

\* folder_map[name].append(file) on a defaultdict(list) kept as the pair
\* <<keys in insertion order, name -> bucket>>
MapAppend(km, name, file) ==
    IF name \in DOMAIN km[2]
    THEN <<km[1], [km[2] EXCEPT ![name] = Append(@, file)]>>
    ELSE <<Append(km[1], name),
           [n \in DOMAIN km[2] \cup {name} |-> IF n = name THEN <<file>> ELSE km[2][n]]>>

\* the file system the scanner runs on: five roots, of which /mnt/x does not
\* exist and /mnt/u may not be read
Root_a == <<"/","m","n","t","/","a">>

Root_b == <<"/","m","n","t","/","b">>

Root_c == <<"/","m","n","t","/","c">>

Root_x == <<"/","m","n","t","/","x">>

Root_u == <<"/","m","n","t","/","u">>

\* a second copy of the library, with the folder names of /mnt/a
Root_d == <<"/","m","n","t","/","d">>

N_ShowS01 == <<"S","h","o","w",".","N","a","m","e",".","S","0","1",".","1","0","8","0","p",".","W","E","B","-","G","R","P">>

N_Show2019 == <<"S","h","o","w"," ","N","a","m","e"," ","(","2","0","1","9",")">>

N_ShowWebRip == <<"S","h","o","w",".","N","a","m","e",".","1","0","8","0","p",".","W","E","B","R","i","p","-","G","R","P">>

RootPool == {Root_a, Root_b, Root_c, Root_x, Root_u}

\* bound on the number of directories given on the command line
MaxRoots == 2

Slash == <<"/">>

\* root.exists()
RootExists(root) == root # Root_x

\* has_read_permission(root)
RootReadable(root) == root # Root_u

\* list(root.rglob('*')): every directory and file below the root, with what
\* is_file(), os.access(R_OK) and stat().st_size give for it (size -1: stat fails)
Entry(path, isfile, readable, size) ==
    [path |-> path, is_file |-> isfile, readable |-> readable, size |-> size]

RGlob(root) ==
    CASE root = Root_a ->
           << Entry(Root_a \o Slash \o N_ShowS01, FALSE, TRUE, 0),
              Entry(Root_a \o Slash \o N_ShowS01 \o <<"/","e","1",".","m","k","v">>, TRUE, TRUE, 20971520),
              Entry(Root_a \o Slash \o N_ShowS01 \o Slash \o N_ShowS01, FALSE, TRUE, 0),
              Entry(Root_a \o Slash \o N_ShowS01 \o Slash \o N_ShowS01 \o <<"/","e","2",".","m","o","v">>, TRUE, TRUE, 1024) >>
      [] root = Root_b ->
           << Entry(Root_b \o Slash \o N_Show2019, FALSE, TRUE, 0),
              Entry(Root_b \o Slash \o N_Show2019 \o <<"/","e","1",".","m","p","4">>, TRUE, TRUE, 1536) >>
      [] root = Root_c ->
           << Entry(Root_c \o Slash \o N_ShowWebRip, FALSE, TRUE, 0),
              Entry(Root_c \o Slash \o N_ShowWebRip \o <<"/","e","1",".","M","K","V">>, TRUE, TRUE, 512),
              Entry(Root_c \o Slash \o N_ShowWebRip \o <<"/","e","1",".","n","f","o">>, TRUE, TRUE, 100),
              Entry(Root_c \o Slash \o N_ShowWebRip \o <<"/","e","2",".","a","v","i">>, TRUE, FALSE, -1) >>
      [] root = Root_u ->
           << Entry(Root_u \o <<"/","h","i","d","d","e","n",".","m","k","v">>, TRUE, TRUE, 2048) >>
      [] root = Root_d ->
           << Entry(Root_d \o Slash \o N_ShowS01, FALSE, TRUE, 0),
              Entry(Root_d \o Slash \o N_ShowS01 \o <<"/","e","1",".","m","k","v">>, TRUE, TRUE, 4096),
              Entry(Root_d \o Slash \o N_ShowS01 \o <<"/","e","3",".","m","p","4">>, TRUE, TRUE, 4096) >>
      [] OTHER -> << >>

\* every entry of the file system
AllEntries == UNION { { RGlob(r)[i] : i \in DOMAIN RGlob(r) } : r \in RootPool }

\* file.stat().st_size, -1 when stat raises
StatSize(path) ==
    IF \E e \in AllEntries : e.path = path
    THEN (CHOOSE e \in AllEntries : e.path = path).size
    ELSE -1

\* main of find_media_dupes.py started with `directories` on the command line
\* (no --scan-mounts)
InitScan ==
    /\ root_paths \in DistinctSeqs(RootPool, MaxRoots)
    /\ valid_paths = <<>>
    /\ si = 1
    /\ sf = 1
    /\ report_file = <<>>
    /\ scan_exit = -1
    /\ spc = "main"
    /\ variant = "find_media_dupes"
    /\ folder_keys = <<>>
    /\ folder_map = <<>>
    /\ cleaned_folders = <<>>
    /\ processed = {}
    /\ similar_groups = <<>>
    /\ current_group = NoGroup
    /\ gi = 0
    /\ gj = 0
    /\ gpc = "idle"
    /\ ParallelIdle
    /\ EnvIdle
    /\ PlannerIdle
    /\ ResolverIdle

\* `if not scan_paths: ... sys.exit(1)`
ExitNoDirectories ==
    /\ spc = "main"
    /\ root_paths = <<>>
    /\ scan_exit' = 1
    /\ spc' = "exited"
    /\ UNCHANGED <<root_paths, valid_paths, si, sf, report_file>>
    /\ UNCHANGED grouperVars
    /\ UNCHANGED nonScanVars

\* results = scan_for_duplicates(scan_paths)
CallScan ==
    /\ spc = "main"
    /\ root_paths # <<>>
    /\ spc' = "validate"
    /\ si' = 1
    /\ UNCHANGED <<root_paths, valid_paths, sf, report_file, scan_exit>>
    /\ UNCHANGED grouperVars
    /\ UNCHANGED nonScanVars

\* a validation loop that stops at the first root it has to skip
ValidateRoot_StopAtInvalid ==
    /\ spc = "validate"
    /\ si <= Len(root_paths)
    /\ IF RootExists(root_paths[si]) /\ RootReadable(root_paths[si])
       THEN /\ valid_paths' = Append(valid_paths, root_paths[si])
            /\ si' = si + 1
       ELSE /\ valid_paths' = valid_paths
            /\ si' = Len(root_paths) + 1
    /\ UNCHANGED <<root_paths, sf, report_file, scan_exit, spc>>
    /\ UNCHANGED grouperVars
    /\ UNCHANGED nonScanVars

\* one iteration of `for root_path in root_paths`: the root is kept when it
\* exists and is readable, skipped with a warning otherwise
ValidateRoot ==
    /\ spc = "validate"
    /\ si <= Len(root_paths)
    /\ valid_paths' = IF RootExists(root_paths[si]) /\ RootReadable(root_paths[si])
                      THEN Append(valid_paths, root_paths[si])
                      ELSE valid_paths
    /\ si' = si + 1
    /\ UNCHANGED <<root_paths, sf, report_file, scan_exit, spc>>
    /\ UNCHANGED grouperVars
    /\ UNCHANGED nonScanVars

\* `if not valid_paths: logger.error(...); return []`
NoValidPaths ==
    /\ spc = "validate"
    /\ si > Len(root_paths)
    /\ valid_paths = <<>>
    /\ similar_groups' = <<>>
    /\ spc' = "report"
    /\ UNCHANGED <<root_paths, valid_paths, si, sf, report_file, scan_exit>>
    /\ UNCHANGED <<variant, folder_keys, folder_map, cleaned_folders, processed,
                   current_group, gi, gj, gpc>>
    /\ UNCHANGED nonScanVars

\* the scan loop starts on the first valid root
StartScan ==
    /\ spc = "validate"
    /\ si > Len(root_paths)
    /\ valid_paths # <<>>
    /\ si' = 1
    /\ sf' = 1
    /\ spc' = "scan"
    /\ UNCHANGED <<root_paths, valid_paths, report_file, scan_exit>>
    /\ UNCHANGED grouperVars
    /\ UNCHANGED nonScanVars

\* one item of `for filepath in root.rglob('*')`: a readable video file is
\* stored under its parent's and under its grandparent's folder name
ScanEntry ==
    /\ spc = "scan"
    /\ si <= Len(valid_paths)
    /\ sf <= Len(RGlob(valid_paths[si]))
    /\ LET e  == RGlob(valid_paths[si])[sf]
           p  == get_parent_folder_name(e.path)
           g  == get_grandparent_folder_name(e.path)
           m0 == <<folder_keys, folder_map>>
           m1 == IF p # <<>> THEN MapAppend(m0, p, e.path) ELSE m0
           m2 == IF g # <<>> THEN MapAppend(m1, g, e.path) ELSE m1
       IN  IF e.is_file /\ is_video_file(e.path) /\ e.readable
           THEN /\ folder_keys' = m2[1]
                /\ folder_map' = m2[2]
           ELSE UNCHANGED <<folder_keys, folder_map>>
    /\ sf' = sf + 1
    /\ UNCHANGED <<root_paths, valid_paths, si, report_file, scan_exit, spc>>
    /\ UNCHANGED <<variant, cleaned_folders, processed, similar_groups, current_group,
                   gi, gj, gpc>>
    /\ UNCHANGED nonScanVars

\* the listing of one root is exhausted: on to the next valid root
NextRoot ==
    /\ spc = "scan"
    /\ si <= Len(valid_paths)
    /\ sf > Len(RGlob(valid_paths[si]))
    /\ si' = si + 1
    /\ sf' = 1
    /\ UNCHANGED <<root_paths, valid_paths, report_file, scan_exit, spc>>
    /\ UNCHANGED grouperVars
    /\ UNCHANGED nonScanVars

\* similar_groups = find_similar_media_folders(folder_map)
CallGrouper ==
    /\ spc = "scan"
    /\ si > Len(valid_paths)
    /\ spc' = "group"
    /\ gpc' = "clean"
    /\ UNCHANGED <<root_paths, valid_paths, si, sf, report_file, scan_exit>>
    /\ UNCHANGED <<variant, folder_keys, folder_map, cleaned_folders, processed,
                   similar_groups, current_group, gi, gj>>
    /\ UNCHANGED nonScanVars

\* scan_for_duplicates returns what find_similar_media_folders returned
ScanReturns ==
    /\ spc = "group"
    /\ gpc = "returned"
    /\ spc' = "report"
    /\ UNCHANGED <<root_paths, valid_paths, si, sf, report_file, scan_exit>>
    /\ UNCHANGED grouperVars
    /\ UNCHANGED nonScanVars

(***************************************************************************)
(* The report of find_media_dupes.py (main, lines 235-256), as lines.      *)
(***************************************************************************)
DigitChars == <<"0","1","2","3","4","5","6","7","8","9">>

\* str(n) for a natural number n
RECURSIVE IntToStr(_)
IntToStr(n) == IF n < 10 THEN <<DigitChars[n + 1]>>
               ELSE IntToStr(n \div 10) \o <<DigitChars[(n % 10) + 1]>>

\* num / den rounded to an integer, ties to even (the rounding of '%.2f'
\* on a value the float holds exactly)
RoundHalfEven(num, den) ==
    LET q == num \div den
        r == num % den
    IN  IF 2 * r < den THEN q
        ELSE IF 2 * r > den THEN q + 1
        ELSE IF q % 2 = 0 THEN q ELSE q + 1

\* f"{x:.2f}" for x = num / den
Format2f(num, den) ==
    LET h == RoundHalfEven(100 * num, den)
    IN  IntToStr(h \div 100) \o <<".", DigitChars[((h % 100) \div 10) + 1],
                                  DigitChars[(h % 10) + 1]>>

size_units == << <<"B">>, <<"K","B">>, <<"M","B">>, <<"G","B">>, <<"T","B">> >>

\* the loop of format_size: k divisions by 1024 have been made (den = 1024^k);
\* the first unit in which the value is below 1024 is used, and after the
\* fifth division the value is still labelled TB
RECURSIVE FormatSizeFrom(_, _, _)
FormatSizeFrom(size_bytes, k, den) ==
    IF k >= Len(size_units)
    THEN Format2f(size_bytes, den) \o <<" ","T","B">>
    ELSE IF size_bytes \div den < 1024
    THEN Format2f(size_bytes, den) \o <<" ">> \o size_units[k + 1]
    ELSE FormatSizeFrom(size_bytes, k + 1, den * 1024)

\* format_size (the sizes of the modelled files stay below 2^31 / 100, where
\* the integer arithmetic of Format2f is exact)
format_size(size_bytes) == FormatSizeFrom(size_bytes, 0, 1)

ReportTitle == <<"=","=","="," ","P","o","t","e","n","t","i","a","l"," ","D","u","p","l","i","c","a","t","e"," ","M","e","d","i","a"," ","R","e","p","o","r","t"," ","=","=","=">>

Rule50 == [i \in 1..50 |-> "="]

\* f"  {file} ({size})", or f"  {file}" when stat() raises
FileLine(file) ==
    IF StatSize(file) >= 0
    THEN <<" ", " ">> \o file \o <<" ", "(">> \o format_size(StatSize(file)) \o <<")">>
    ELSE <<" ", " ">> \o file

\* f"Similar Folder (similarity: {score:.2f}): {folder}"
SimilarLine(folder, score) ==
    <<"S","i","m","i","l","a","r"," ","F","o","l","d","e","r"," ","(","s","i","m","i","l","a","r","i","t","y",":"," ">> \o Format2f(score[1], score[2])
        \o <<")", ":", " ">> \o folder

RECURSIVE GroupLines(_, _)
\* the lines written for the groups from the k-th on; "\n" inside the
\* written strings gives the empty lines
GroupLines(res, k) ==
    IF k > Len(res) THEN <<>>
    ELSE LET group == res[k]
         IN  << <<>>, Rule50, <<"B","a","s","e"," ","F","o","l","d","e","r",":"," ">> \o group.base_folder,
                <<"F","i","l","e","s",":">> >>
             \o [i \in DOMAIN group.files |-> FileLine(group.files[i])]
             \o [i \in 1..(2 * Len(group.similar_folders)) |->
                   IF i % 2 = 1 THEN <<>>
                   ELSE SimilarLine(group.similar_folders[i \div 2],
                                    group.similarity_scores[i \div 2])]
             \o << <<>> >>
             \o GroupLines(res, k + 1)

\* the report file main writes for the list `results`
ReportLines(res) ==
    IF res = <<>>
    THEN << ReportTitle, <<>>, <<"N","o"," ","p","o","t","e","n","t","i","a","l"," ","d","u","p","l","i","c","a","t","e","s"," ","f","o","u","n","d",".">> >>
    ELSE << ReportTitle, <<>> >> \o GroupLines(res, 1)

\* main writes the report; with no results it returns after the notice,
\* otherwise it logs and falls off the end: exit status 0 either way
WriteReport ==
    /\ spc = "report"
    /\ report_file' = ReportLines(similar_groups)
    /\ scan_exit' = 0
    /\ spc' = "exited"
    /\ UNCHANGED <<root_paths, valid_paths, si, sf>>
    /\ UNCHANGED grouperVars
    /\ UNCHANGED nonScanVars

\* the grouper as called by the scanner
GrouperStep ==
    /\ spc = "group"
    /\ \/ CleanFolders
       \/ SkipFolder
       \/ OpenGroup
       \/ CompareFolder
       \/ CloseGroup
       \/ ReturnGroups

NextScan ==
    \/ ExitNoDirectories
    \/ CallScan
    \/ ValidateRoot
    \/ NoValidPaths
    \/ StartScan
    \/ ScanEntry
    \/ NextRoot
    \/ CallGrouper
    \/ GrouperStep
    \/ ScanReturns
    \/ WriteReport

SpecScan == InitScan /\ [][NextScan]_vars

(***************************************************************************)
(* Parallel scan: scan_for_duplicates and scan_directory of                *)
(* src/find_dupes.py.  Every valid path is scanned by a worker of the      *)
(* thread pool into a folder_map of its own; the main thread merges the    *)
(* results in the order the workers complete.                              *)
(***************************************************************************)
ParallelRootPool == {Root_a, Root_b, Root_c, Root_d, Root_x}

\* what is left alone by every step of the parallel scan
parallelFrame == <<root_paths, si, sf, report_file, scan_exit, spc, variant,
                   cleaned_folders, processed, current_group, gi, gj,
                   envVars, plannerVars, resolverVars>>

\* scan_for_duplicates(root_paths) of src/find_dupes.py is called
InitParallelScan ==
    /\ root_paths \in DistinctSeqs(ParallelRootPool, MaxRoots)
    /\ valid_paths = <<>>
    /\ si = 0
    /\ sf = 0
    /\ report_file = <<>>
    /\ scan_exit = -1
    /\ spc = "idle"
    /\ futures = <<>>
    /\ merge_order = <<>>
    /\ xpc = "validate"
    /\ variant = "find_dupes"
    /\ folder_keys = <<>>
    /\ folder_map = <<>>
    /\ cleaned_folders = <<>>
    /\ processed = {}
    /\ similar_groups = <<>>
    /\ current_group = NoGroup
    /\ gi = 0
    /\ gj = 0
    /\ gpc = "idle"
    /\ EnvIdle
    /\ PlannerIdle
    /\ ResolverIdle

\* valid_paths = [Path(p) for p in root_paths if Path(p).exists()]
FilterValidPaths ==
    /\ xpc = "validate"
    /\ valid_paths' = SelectSeq(root_paths, RootExists)
    /\ xpc' = "submit"
    /\ UNCHANGED <<futures, merge_order, folder_keys, folder_map, similar_groups, gpc>>
    /\ UNCHANGED parallelFrame

\* `if not valid_paths: logger.error(...); return []`
ParallelNoValidPaths ==
    /\ xpc = "submit"
    /\ valid_paths = <<>>
    /\ similar_groups' = <<>>
    /\ xpc' = "returned"
    /\ UNCHANGED <<valid_paths, futures, merge_order, folder_keys, folder_map, gpc>>
    /\ UNCHANGED parallelFrame

\* folder_map = defaultdict(list); executor.submit(scan_directory, path) for
\* every valid path
SubmitScans ==
    /\ xpc = "submit"
    /\ valid_paths # <<>>
    /\ futures' = [i \in DOMAIN valid_paths |->
                      [path |-> valid_paths[i], pos |-> 1, result |-> << <<>>, <<>> >>,
                       done |-> FALSE]]
    /\ xpc' = "merge"
    /\ UNCHANGED <<valid_paths, merge_order, folder_keys, folder_map, similar_groups, gpc>>
    /\ UNCHANGED parallelFrame

\* a worker that appends to the folder_map of scan_for_duplicates
WorkerScanEntry_SharedIndex(i) ==
    /\ xpc = "merge"
    /\ ~futures[i].done
    /\ futures[i].pos <= Len(RGlob(futures[i].path))
    /\ LET e  == RGlob(futures[i].path)[futures[i].pos]
           p  == get_parent_folder_name(e.path)
           g  == get_grandparent_folder_name(e.path)
           m0 == <<folder_keys, folder_map>>
           m1 == IF p # <<>> THEN MapAppend(m0, p, e.path) ELSE m0
           m2 == IF g # <<>> THEN MapAppend(m1, g, e.path) ELSE m1
       IN  /\ futures' = [futures EXCEPT ![i].pos = @ + 1]
           /\ folder_keys' = IF e.is_file /\ is_video_file(e.path) THEN m2[1] ELSE folder_keys
           /\ folder_map' = IF e.is_file /\ is_video_file(e.path) THEN m2[2] ELSE folder_map
    /\ UNCHANGED <<valid_paths, merge_order, similar_groups, gpc, xpc>>
    /\ UNCHANGED parallelFrame

\* worker i, one item of `for filepath in list(root.rglob('*'))` in
\* scan_directory: a video file is stored in the worker's own folder_map
\* under its parent's and under its grandparent's folder name
WorkerScanEntry(i) ==
    /\ xpc = "merge"
    /\ ~futures[i].done
    /\ futures[i].pos <= Len(RGlob(futures[i].path))
    /\ LET e  == RGlob(futures[i].path)[futures[i].pos]
           p  == get_parent_folder_name(e.path)
           g  == get_grandparent_folder_name(e.path)
           m0 == futures[i].result
           m1 == IF p # <<>> THEN MapAppend(m0, p, e.path) ELSE m0
           m2 == IF g # <<>> THEN MapAppend(m1, g, e.path) ELSE m1
       IN  futures' = [futures EXCEPT ![i].pos = @ + 1,
                                      ![i].result = IF e.is_file /\ is_video_file(e.path)
                                                    THEN m2 ELSE m0]
    /\ UNCHANGED <<valid_paths, merge_order, folder_keys, folder_map, similar_groups, gpc, xpc>>
    /\ UNCHANGED parallelFrame

\* worker i: `return folder_map`, the future is completed
WorkerReturns(i) ==
    /\ xpc = "merge"
    /\ ~futures[i].done
    /\ futures[i].pos > Len(RGlob(futures[i].path))
    /\ futures' = [futures EXCEPT ![i].done = TRUE]
    /\ UNCHANGED <<valid_paths, merge_order, folder_keys, folder_map, similar_groups, gpc, xpc>>
    /\ UNCHANGED parallelFrame

\* folder_map[folder].extend(files) on the pair <<keys, map>>
MapExtend(km, folder, files) ==
    IF folder \in DOMAIN km[2]
    THEN <<km[1], [km[2] EXCEPT ![folder] = @ \o files]>>
    ELSE <<Append(km[1], folder),
           [n \in DOMAIN km[2] \cup {folder} |-> IF n = folder THEN files ELSE km[2][n]]>>

\* `for folder, files in result.items(): folder_map[folder].extend(files)`
\* from the k-th key of the result on
RECURSIVE MergeResult(_, _, _)
MergeResult(km, result, k) ==
    IF k > Len(result[1]) THEN km
    ELSE MergeResult(MapExtend(km, result[1][k], result[2][result[1][k]]), result, k + 1)

\* one iteration of `for future in as_completed(future_to_path)`: a future
\* that has completed and was not yet yielded is merged by the main thread
MergeFuture(i) ==
    /\ xpc = "merge"
    /\ futures[i].done
    /\ \A k \in DOMAIN merge_order : merge_order[k] # i
    /\ folder_keys' = MergeResult(<<folder_keys, folder_map>>, futures[i].result, 1)[1]
    /\ folder_map' = MergeResult(<<folder_keys, folder_map>>, futures[i].result, 1)[2]
    /\ merge_order' = Append(merge_order, i)
    /\ UNCHANGED <<valid_paths, futures, similar_groups, gpc, xpc>>
    /\ UNCHANGED parallelFrame

\* every future was yielded: `return find_similar_media_folders(folder_map)`
ParallelCallGrouper ==
    /\ xpc = "merge"
    /\ Len(merge_order) = Len(futures)
    /\ xpc' = "group"
    /\ gpc' = "clean"
    /\ UNCHANGED <<valid_paths, futures, merge_order, folder_keys, folder_map, similar_groups>>
    /\ UNCHANGED parallelFrame

\* the grouper as called by the parallel scan
ParallelGrouperStep ==
    /\ xpc = "group"
    /\ \/ CleanFolders
       \/ SkipFolder
       \/ OpenGroup
       \/ CompareFolder
       \/ CloseGroup
       \/ ReturnGroups

\* scan_for_duplicates returns what find_similar_media_folders returned
ParallelScanReturns ==
    /\ xpc = "group"
    /\ gpc = "returned"
    /\ xpc' = "returned"
    /\ UNCHANGED <<valid_paths, futures, merge_order, folder_keys, folder_map,
                   similar_groups, gpc>>
    /\ UNCHANGED parallelFrame

\* write_report of src/find_dupes.py on the groups from the k-th on: the
\* lines that reach the file, and whether the function raised. The loop over
\* a group's similar folders writes the 'Similar Folder' line and then
\* evaluates `folder_map[folder]`, a name that is bound neither in
\* write_report nor in the module: NameError, outside every try
RECURSIVE WriteGroupsFrom(_, _)
WriteGroupsFrom(res, k) ==
    IF k > Len(res) THEN [raised |-> FALSE, lines |-> <<>>]
    ELSE LET group == res[k]
             head  == << <<>>, Rule50,
                         <<"B","a","s","e"," ","F","o","l","d","e","r",":"," ">> \o group.base_folder,
                         <<"F","i","l","e","s",":">> >>
                      \o [i \in DOMAIN group.files |-> FileLine(group.files[i])]
             rest  == WriteGroupsFrom(res, k + 1)
         IN  IF group.similar_folders = <<>>
             THEN [raised |-> rest.raised, lines |-> head \o rest.lines]
             ELSE [raised |-> TRUE,
                   lines |-> head \o << <<>>, SimilarLine(group.similar_folders[1],
                                                          group.similarity_scores[1]) >>]

\* write_report(results, output_file) of src/find_dupes.py
write_report(res) ==
    IF res = <<>>
    THEN [raised |-> FALSE,
          lines |-> << ReportTitle, <<>>, <<"N","o"," ","p","o","t","e","n","t","i","a","l"," ","d","u","p","l","i","c","a","t","e","s"," ","f","o","u","n","d",".">> >>]
    ELSE [raised |-> WriteGroupsFrom(res, 1).raised,
          lines |-> << ReportTitle, <<>> >> \o WriteGroupsFrom(res, 1).lines]

\* main of src/find_dupes.py, which calls scan_for_duplicates with at least
\* one directory: write_report(results, args.output); an exception it raises
\* ends the process with a traceback and status 1
ParallelWriteReport ==
    /\ xpc = "returned"
    /\ root_paths # <<>>
    /\ report_file' = write_report(similar_groups).lines
    /\ scan_exit' = IF write_report(similar_groups).raised THEN 1 ELSE 0
    /\ xpc' = IF write_report(similar_groups).raised THEN "fault" ELSE "exited"
    /\ UNCHANGED <<root_paths, valid_paths, si, sf, spc, futures, merge_order>>
    /\ UNCHANGED grouperVars
    /\ UNCHANGED <<envVars, plannerVars, resolverVars>>

NextParallelScan ==
    \/ FilterValidPaths
    \/ ParallelNoValidPaths
    \/ SubmitScans
    \/ \E i \in DOMAIN futures : WorkerScanEntry(i)
    \/ \E i \in DOMAIN futures : WorkerReturns(i)
    \/ \E i \in DOMAIN futures : MergeFuture(i)
    \/ ParallelCallGrouper
    \/ ParallelGrouperStep
    \/ ParallelScanReturns
    \/ ParallelWriteReport

SpecParallelScan == InitParallelScan /\ [][NextParallelScan]_vars

(***************************************************************************)
(* Properties of the Filesystem Scanner.                                   *)
(***************************************************************************)
\* the roots that were scanned
ScannedRoots == { valid_paths[i] : i \in DOMAIN valid_paths }

\* group g lists both names, one as base and the other as a similar member
\* recorded with a score above 0.9
ListsPair(g, n1, n2) ==
    \/ /\ g.base_folder = n1
       /\ \E i \in DOMAIN g.similar_folders :
             /\ g.similar_folders[i] = n2
             /\ 10 * g.similarity_scores[i][1] > 9 * g.similarity_scores[i][2]
    \/ /\ g.base_folder = n2
       /\ \E i \in DOMAIN g.similar_folders :
             /\ g.similar_folders[i] = n1
             /\ 10 * g.similarity_scores[i][1] > 9 * g.similarity_scores[i][2]

\* C6: end-to-end scenario 1 -- once the scan of the two roots that hold
\* 'Show.Name.S01.1080p.WEB-GRP' and 'Show Name (2019)', each with a video
\* file, has finished, exactly one returned group lists both folder names
\* with a similarity score above 0.9.
C6_Scenario1Grouped ==
    (spc = "exited" /\ scan_exit = 0 /\ ScannedRoots = {Root_a, Root_b})
        => \E k \in DOMAIN similar_groups :
              /\ ListsPair(similar_groups[k], N_ShowS01, N_Show2019)
              /\ \A j \in DOMAIN similar_groups :
                    ListsPair(similar_groups[j], N_ShowS01, N_Show2019) => j = k

\* the given roots that exist and may be read, in the order given
ValidRoots == SelectSeq(root_paths, LAMBDA r : RootExists(r) /\ RootReadable(r))

\* C17: no valid roots is a fatal configuration error -- when directories are
\* given but none of them exists or is readable, the process ends with a
\* non-zero exit status and has written no report.
C17_NoValidRootsIsFatal ==
    (spc = "exited" /\ root_paths # <<>> /\ ValidRoots = <<>>)
        => scan_exit # 0 /\ report_file = <<>>

\* the bucket of a folder name, empty when the index has no such key
Bucket(n) == IF n \in DOMAIN folder_map THEN folder_map[n] ELSE <<>>

\* how often a path occurs in a bucket
Count(bucket, path) == Cardinality({ i \in DOMAIN bucket : bucket[i] = path })

\* the path ends in one of the six video extensions, in any letter case
HasVideoExtension(path) ==
    /\ Len(path) > 4
    /\ Lower(SubSeq(path, Len(path) - 3, Len(path))) \in
          { <<".","m","k","v">>, <<".","m","p","4">>, <<".","a","v","i">>,
            <<".","m","o","v">>, <<".","w","m","v">>, <<".","m","4","v">> }

\* the names of the directory that holds the file and of the one above it
ParentName(path) == PathParts(path)[Len(PathParts(path)) - 1]

GrandparentName(path) ==
    IF Len(PathParts(path)) >= 3 THEN PathParts(path)[Len(PathParts(path)) - 2] ELSE <<>>

\* the scan has ended and the folder index is handed to the grouper
IndexComplete == spc = "group" /\ gpc = "clean"

\* the files listed under the valid roots
FilesFound ==
    UNION { { RGlob(ValidRoots[k])[i] : i \in { j \in DOMAIN RGlob(ValidRoots[k]) :
                                                    RGlob(ValidRoots[k])[j].is_file } } :
            k \in DOMAIN ValidRoots }

\* the original statement of C19: with some roots skipped and at least one
\* valid, every video file of every valid root is in the folder index used
\* for grouping.
C19_AllVideoFilesIndexed ==
    (IndexComplete /\ ValidRoots # <<>> /\ Len(ValidRoots) < Len(root_paths))
        => \A e \in FilesFound :
              HasVideoExtension(e.path) => Count(Bucket(ParentName(e.path)), e.path) >= 1

\* C19: inaccessible roots are skipped, not fatal -- when some of the given
\* roots do not exist or may not be read and at least one is valid, the scan
\* goes on: every valid root is traversed, every video file of it that the
\* process may read is in the folder index used for grouping, and the
\* process ends with status 0.
C19_InvalidRootsSkipped ==
    (ValidRoots # <<>> /\ Len(ValidRoots) < Len(root_paths))
        => /\ IndexComplete
              => \A e \in FilesFound :
                    (HasVideoExtension(e.path) /\ e.readable)
                        => Count(Bucket(ParentName(e.path)), e.path) >= 1
           /\ spc \in {"group", "report", "exited"} => valid_paths = ValidRoots
           /\ spc = "exited" => scan_exit = 0

\* the index is complete after a run on a missing root followed by a valid
\* root, whose video file is indexed
C19_Witness ==
    /\ IndexComplete
    /\ root_paths = <<Root_x, Root_b>>
    /\ Count(Bucket(N_Show2019), Root_b \o Slash \o N_Show2019 \o <<"/","e","1",".","m","p","4">>) = 1

\* the number of entries the indexing rule gives a video file in the bucket
\* of name n: one as the parent's name, one as the grandparent's name
RuleCount(path, n) ==
    (IF ParentName(path) = n THEN 1 ELSE 0) + (IF GrandparentName(path) = n THEN 1 ELSE 0)

\* every folder name of the file system
FolderNames == UNION { { ParentName(e.path), GrandparentName(e.path) } : e \in AllEntries }

\* the original statement of C20: every file with a video extension found
\* under a valid root has exactly one entry under its parent's name and one
\* under its grandparent's name, every other file has none.
C20_EveryVideoFileIndexed ==
    IndexComplete
        => \A e \in FilesFound : \A n \in FolderNames \cup DOMAIN folder_map :
              Count(Bucket(n), e.path) = IF HasVideoExtension(e.path) THEN RuleCount(e.path, n) ELSE 0

\* C20: scanner indexing rule -- for every file found under a valid root, if
\* its extension is one of the six video extensions (in any letter case) and
\* the process may read the file, the index used for grouping holds exactly
\* one entry for it in the bucket of its parent folder name and exactly one in
\* the bucket of its grandparent folder name (two in one bucket when the names
\* coincide); any other file is in no bucket, and the index has no other key.
C20_IndexingRule ==
    IndexComplete
        => /\ \A e \in FilesFound : \A n \in FolderNames \cup DOMAIN folder_map :
                 Count(Bucket(n), e.path) =
                    IF HasVideoExtension(e.path) /\ e.readable THEN RuleCount(e.path, n) ELSE 0
           /\ \A n \in DOMAIN folder_map : \E e \in FilesFound : Count(folder_map[n], e.path) > 0

\* the index is complete and holds a file twice in one bucket (parent and
\* grandparent of the same name), a file with an upper-case extension, and
\* neither the .nfo file nor the unreadable video file of /mnt/c
C20_Witness ==
    /\ IndexComplete
    /\ root_paths = <<Root_a, Root_c>>
    /\ Count(Bucket(N_ShowS01), Root_a \o Slash \o N_ShowS01 \o Slash \o N_ShowS01 \o <<"/","e","2",".","m","o","v">>) = 2
    /\ Count(Bucket(N_ShowWebRip), Root_c \o Slash \o N_ShowWebRip \o <<"/","e","1",".","M","K","V">>) = 1
    /\ Len(Bucket(N_ShowWebRip)) = 1

(***************************************************************************)
(* Cleanup Planner (src/cleanup_dupes.py).                                 *)
(***************************************************************************)
\* "/" + "/".join(parts)
RECURSIVE JoinPath(_)
JoinPath(parts) ==
    IF parts = <<>> THEN <<>>
    ELSE Slash \o parts[1] \o JoinPath(Tail(parts))

\* Path.resolve() on the components of an absolute path, on a file system
\* without symbolic links: "." is dropped, ".." drops the component before it
RECURSIVE ResolveParts(_, _)
ResolveParts(parts, acc) ==
    IF parts = <<>> THEN acc
    ELSE IF parts[1] = <<".">> THEN ResolveParts(Tail(parts), acc)
    ELSE IF parts[1] = <<".", ".">>
    THEN ResolveParts(Tail(parts), IF acc = <<>> THEN acc ELSE SubSeq(acc, 1, Len(acc) - 1))
    ELSE ResolveParts(Tail(parts), Append(acc, parts[1]))

\* the module-level function _normalize_path: str(Path(path).resolve()), the
\* working directory being "/"
normalize_path(path) ==
    LET parts == ResolveParts(PathParts(path), <<>>)
    IN  IF parts = <<>> THEN Slash ELSE JoinPath(parts)

\* str(Path(norm_path).parent)
PathParent(norm_path) ==
    LET parts == PathParts(norm_path)
    IN  IF Len(parts) <= 1 THEN Slash ELSE JoinPath(SubSeq(parts, 1, Len(parts) - 1))

\* the attributes of a Sonarr / Radarr client object: those MediaServer.__init__
\* sets and the one method its class defines
ClientAttributes(c) ==
    {"base_url", "api_key", "headers", "_paths_cache"}
        \cup (IF c = "sonarr" THEN {"get_series_paths"} ELSE {"get_movie_paths"})

\* the keys of the dict comprehension {self._normalize_path(s['path']): ... for s in series}:
\* the attribute lookup raises AttributeError on the first entry when the
\* object has no such attribute, and s['path'] raises on an entry that is no
\* JSON object
CacheKeys(c, entries) ==
    IF entries = <<>> THEN [raised |-> FALSE, paths |-> {}]
    ELSE IF "_normalize_path" \notin ClientAttributes(c) THEN [raised |-> TRUE, paths |-> {}]
    ELSE IF \E i \in DOMAIN entries : ~entries[i].object THEN [raised |-> TRUE, paths |-> {}]
    ELSE [raised |-> FALSE,
          paths |-> { normalize_path(entries[i].path) : i \in DOMAIN entries }]

\* a client that leaves _paths_cache at None when the request fails
CacheAfterCall_RetryAfterFailure(c) ==
    IF paths_cache[c].fetched THEN paths_cache[c]
    ELSE LET keys == CacheKeys(c, catalog[c].entries)
         IN  [fetched |-> catalog[c].kind = "ok",
              paths |-> IF catalog[c].kind = "ok" /\ ~keys.raised THEN keys.paths ELSE {}]

\* get_series_paths / get_movie_paths: _paths_cache after the call. The first
\* call sends the request; a failed request, an error status and an exception
\* of the comprehension all end in `except Exception`, which stores {}
CacheAfterCall(c) ==
    IF paths_cache[c].fetched THEN paths_cache[c]
    ELSE LET keys == CacheKeys(c, catalog[c].entries)
         IN  [fetched |-> TRUE,
              paths |-> IF catalog[c].kind = "ok" /\ ~keys.raised THEN keys.paths ELSE {}]

\* check_media_server_paths(file_path, sonarr, radarr)
check_media_server_paths(file_path) ==
    LET parent_path == PathParent(normalize_path(file_path))
    IN  IF parent_path \in CacheAfterCall("sonarr").paths
        THEN [managed |-> TRUE, server |-> "sonarr"]
        ELSE IF parent_path \in CacheAfterCall("radarr").paths
        THEN [managed |-> TRUE, server |-> "radarr"]
        ELSE [managed |-> FALSE, server |-> "none"]

\* None, as the value of a group's base_folder
None == << "None" >>

Unknown == <<"U","n","k","n","o","w","n">>

\* the empty group parse_report opens at a delimiter line
NewGroup == [base_folder |-> None, base_files |-> <<>>, similar_folders |-> <<>>,
             similar_files |-> <<>>]

\* the file-line branch of parse_report: (path, size) of a line
FileTuple(line) ==
    LET parts == Split(Strip(line), <<" ", "(">>)
    IN  <<Strip(parts[1]),
          IF Len(parts) > 1 THEN Replace(parts[2], <<")">>, <<>>) ELSE Unknown>>

\* one iteration of `for line in lines` of parse_report on the state
\* st = [groups, current_group, open (current_group is not None), raised]
ParseLine(st, raw) ==
    LET line == Strip(raw)
        cur  == st.current_group
    IN  IF StartsWith(line, <<"=", "=", "=">>) /\ Len(line) > 10
        THEN [st EXCEPT !.groups = IF st.open THEN Append(@, cur) ELSE @,
                        !.current_group = NewGroup,
                        !.open = TRUE]
        ELSE IF StartsWith(line, <<"B","a","s","e"," ","F","o","l","d","e","r",":">>)
        THEN IF st.open
             THEN [st EXCEPT !.current_group.base_folder =
                                 Strip(Replace(line, <<"B","a","s","e"," ","F","o","l","d","e","r",":">>, <<>>))]
             ELSE st
        ELSE IF StartsWith(line, <<"S","i","m","i","l","a","r"," ","F","o","l","d","e","r">>)
        THEN IF st.open
             THEN [st EXCEPT !.current_group.similar_folders = Append(@, line)]
             ELSE [st EXCEPT !.raised = TRUE]
        ELSE IF StartsWith(line, <<" ", " ", "/">>)
        THEN IF ~st.open THEN st
             ELSE IF cur.similar_folders # <<>>
             THEN [st EXCEPT !.current_group.similar_files = Append(@, FileTuple(line))]
             ELSE [st EXCEPT !.current_group.base_files = Append(@, FileTuple(line))]
        ELSE st

RECURSIVE ParseLines(_, _, _)
ParseLines(lines, i, st) ==
    IF i > Len(lines) \/ st.raised THEN st
    ELSE ParseLines(lines, i + 1, ParseLine(st, lines[i]))

\* parse_report(report_file): the groups returned, or raised = TRUE when the
\* loop raises
parse_report(lines) ==
    LET st == ParseLines(lines, 1, [groups |-> <<>>, current_group |-> NewGroup,
                                    open |-> FALSE, raised |-> FALSE])
    IN  [raised |-> st.raised,
         groups |-> IF st.open THEN Append(st.groups, st.current_group) ELSE st.groups]

\* int(s) for a string of decimal digits
RECURSIVE StrToNat(_)
StrToNat(s) ==
    IF s = <<>> THEN 0
    ELSE 10 * StrToNat(SubSeq(s, 1, Len(s) - 1))
         + (CHOOSE d \in 0..9 : DigitChars[d + 1] = s[Len(s)])

\* format_size_bytes(size_str): int(float(number) * units[unit]); -1 stands
\* for the exception raised when the string is not "<number> <unit>"
format_size_bytes(size_str) ==
    IF size_str = Unknown THEN 0
    ELSE LET tok  == SelectSeq(Split(size_str, <<" ">>), LAMBDA x : x # <<>>)
             num  == Split(tok[1], <<".">>)
             frac == IF Len(num) = 2 THEN num[2] ELSE <<>>
             unit == { k \in DOMAIN size_units : size_units[k] = tok[2] }
         IN  IF Len(tok) # 2 THEN -1
             ELSE IF \/ Len(num) > 2
                     \/ num[1] \o frac = <<>>
                     \/ \E i \in DOMAIN (num[1] \o frac) : ~IsDigit((num[1] \o frac)[i])
                     \/ unit = {}
             THEN -1
             ELSE (StrToNat(num[1] \o frac) * 1024 ^ (Min(unit) - 1)) \div 10 ^ Len(frac)

\* one line of the cleanup script
ScriptLine(kind, g, file, note) == [kind |-> kind, group |-> g, file |-> file, note |-> note]

\* [(file, size, check_media_server_paths(file, sonarr, radarr)) for file, size in files]
FilesInfo(files) ==
    [i \in DOMAIN files |->
        [file |-> files[i][1], size |-> files[i][2],
         info |-> check_media_server_paths(files[i][1])]]

\* the status comments written for a list of (file, size, info) tuples
StatusLines(g, side, files_info) ==
    [i \in DOMAIN files_info |->
        ScriptLine(side, g, files_info[i].file,
                   IF files_info[i].info.managed THEN files_info[i].info.server
                   ELSE "UNMANAGED")]

\* the safe_remove invocations written for a list of (file, size, info) tuples
RemoveLines(g, files_info) ==
    [i \in DOMAIN files_info |-> ScriptLine("safe_remove", g, files_info[i].file, "")]

\* any(info['managed'] for _, _, info in files_info)
AnyManaged(files_info) == \E i \in DOMAIN files_info : files_info[i].info.managed

\* max(...) of the sizes in bytes of a list of (file, size, info) tuples, -1
\* when format_size_bytes raises on one of them
MaxSize(files_info) ==
    LET sizes == { format_size_bytes(files_info[i].size) : i \in DOMAIN files_info }
    IN  IF -1 \in sizes THEN -1 ELSE Max(sizes)

\* the size suggestion with `>=` in place of `>`
Suggestion_AtLeast(g, head, sized, max_base, max_similar) ==
    IF max_base = -1 \/ max_similar = -1
    THEN Append(head, ScriptLine("raised", g, <<>>, ""))
    ELSE IF ~sized THEN head
    ELSE IF 2 * max_base >= 3 * max_similar
    THEN Append(head, ScriptLine("suggestion", g, <<>>, "base"))
    ELSE IF 2 * max_similar >= 3 * max_base
    THEN Append(head, ScriptLine("suggestion", g, <<>>, "similar"))
    ELSE head

\* the size suggestion of the 'Manual review required' branch; "raised" when
\* format_size_bytes raised on a size (max_base or max_similar is -1)
Suggestion(g, head, sized, max_base, max_similar) ==
    IF max_base = -1 \/ max_similar = -1
    THEN Append(head, ScriptLine("raised", g, <<>>, ""))
    ELSE IF ~sized THEN head
    ELSE IF 2 * max_base > 3 * max_similar
    THEN Append(head, ScriptLine("suggestion", g, <<>>, "base"))
    ELSE IF 2 * max_similar > 3 * max_base
    THEN Append(head, ScriptLine("suggestion", g, <<>>, "similar"))
    ELSE head

\* the lines of the 'Manual review required' branch; the sizes of the base
\* files are converted first, then those of the similar files
ManualLines(g, base_files_info, similar_files_info, both) ==
    Suggestion(g, << ScriptLine("manual_review", g, <<>>, IF both THEN "both" ELSE "none") >>,
               base_files_info # <<>> /\ similar_files_info # <<>>,
               IF base_files_info = <<>> THEN 0 ELSE MaxSize(base_files_info),
               IF similar_files_info = <<>> THEN 0 ELSE MaxSize(similar_files_info))

\* a decision logic that removes the files of both sides when neither or
\* both are managed
Decision_RemoveOnManual(g, base_files_info, similar_files_info, base_managed, similar_managed) ==
    IF base_managed /\ ~similar_managed
    THEN << ScriptLine("keep", g, <<>>, "base") >> \o RemoveLines(g, similar_files_info)
    ELSE IF similar_managed /\ ~base_managed
    THEN << ScriptLine("keep", g, <<>>, "similar") >> \o RemoveLines(g, base_files_info)
    ELSE RemoveLines(g, base_files_info) \o RemoveLines(g, similar_files_info)

\* the decision logic of create_cleanup_script (lines 235-261)
Decision(g, base_files_info, similar_files_info, base_managed, similar_managed) ==
    IF base_managed /\ ~similar_managed
    THEN << ScriptLine("keep", g, <<>>, "base") >> \o RemoveLines(g, similar_files_info)
    ELSE IF similar_managed /\ ~base_managed
    THEN << ScriptLine("keep", g, <<>>, "similar") >> \o RemoveLines(g, base_files_info)
    ELSE ManualLines(g, base_files_info, similar_files_info, base_managed /\ similar_managed)

\* what the loop body writes once both info lists are built
InfoScript(g, base_folder, base_files_info, similar_files_info) ==
    << ScriptLine("echo", g, <<>>, ""), ScriptLine("group", g, base_folder, "") >>
    \o StatusLines(g, "base_status", base_files_info)
    \o StatusLines(g, "similar_status", similar_files_info)
    \o Decision(g, base_files_info, similar_files_info,
                AnyManaged(base_files_info), AnyManaged(similar_files_info))

\* everything the loop body of create_cleanup_script writes for group number g
GroupScript(g, group) ==
    InfoScript(g, group.base_folder, FilesInfo(group.base_files), FilesInfo(group.similar_files))

\* the catalogs whose client is called while a group is processed: Sonarr for
\* every file, Radarr for every file whose parent is not a Sonarr path
Called(c, group) ==
    LET files == group.base_files \o group.similar_files
    IN  IF c = "sonarr" THEN files # <<>>
        ELSE \E i \in DOMAIN files :
                PathParent(normalize_path(files[i][1])) \notin CacheAfterCall("sonarr").paths

\* what a catalog answers: a 200 response with entries, or a failure
Ok(entries) == [kind |-> "ok", entries |-> entries]

Failed(kind) == [kind |-> kind, entries |-> <<>>]

Failures == {"http_error", "timeout", "connection_error"}

E_Show == [object |-> TRUE, title |-> <<"S","h","o","w"," ","N","a","m","e">>, path |-> <<"/","l","i","b","r","a","r","y","/","t","v","/","S","h","o","w"," ","N","a","m","e">>]

E_Movie == [object |-> TRUE, title |-> <<"T","h","e"," ","M","o","v","i","e">>, path |-> <<"/","l","i","b","r","a","r","y","/","m","o","v","i","e","s","/","T","h","e"," ","M","o","v","i","e">>]

E_Remake == [object |-> TRUE, title |-> <<"S","h","o","w"," ","N","a","m","e"," ","(","2","0","1","9",")">>,
             path |-> <<"/","l","i","b","r","a","r","y","/","m","o","v","i","e","s","/","S","h","o","w"," ","N","a","m","e"," ","(","2","0","1","9",")">>]

\* an element of the JSON array that is no object
E_Garbage == [object |-> FALSE, title |-> <<>>, path |-> <<>>]

\* the answers drawn for a catalog
Answers(c) ==
    (IF c = "sonarr" THEN { Ok(<<>>), Ok(<<E_Show>>), Ok(<<E_Show, E_Garbage>>) }
     ELSE { Ok(<<>>), Ok(<<E_Movie>>), Ok(<<E_Remake, E_Movie>>) })
        \cup { Failed(k) : k \in Failures }

F_LibShow == <<"/","l","i","b","r","a","r","y","/","t","v","/","S","h","o","w"," ","N","a","m","e","/","e","1",".","m","k","v">>

F_BackupShow == <<"/","b","a","c","k","u","p","/","t","v","/","S","h","o","w",".","N","a","m","e",".","W","E","B","R","i","p","/","e","1",".","m","k","v">>

F_LibMovie == <<"/","l","i","b","r","a","r","y","/","m","o","v","i","e","s","/","T","h","e"," ","M","o","v","i","e","/","m",".","m","k","v">>

F_BackupMovie == <<"/","b","a","c","k","u","p","/","m","o","v","i","e","s","/","T","h","e",".","M","o","v","i","e","/","m",".","m","k","v">>

L_SimilarShow == <<"S","i","m","i","l","a","r"," ","F","o","l","d","e","r"," ","(","s","i","m","i","l","a","r","i","t","y",":"," ","1",".","0","0",")",":"," ","S","h","o","w",".","N","a","m","e",".","W","E","B","R","i","p">>

\* groups create_cleanup_script is called on: a library copy against a backup
\* copy (base side in the library; similar side in the library), and two
\* library copies
G_Show == [base_folder |-> E_Show.title,
           base_files |-> << <<F_LibShow, <<"1",".","5","0"," ","K","B">>>> >>,
           similar_folders |-> <<L_SimilarShow>>,
           similar_files |-> << <<F_BackupShow, <<"1",".","0","0"," ","K","B">>>> >>]

G_Movie == [base_folder |-> <<"T","h","e",".","M","o","v","i","e">>,
            base_files |-> << <<F_BackupMovie, <<"5","1","2",".","0","0"," ","B">>>> >>,
            similar_folders |-> << <<"S","i","m","i","l","a","r"," ","F","o","l","d","e","r"," ","(","s","i","m","i","l","a","r","i","t","y",":"," ","1",".","0","0",")",":"," ","T","h","e"," ","M","o","v","i","e">> >>,
            similar_files |-> << <<F_LibMovie, Unknown>> >>]

G_Both == [base_folder |-> E_Show.title,
           base_files |-> << <<F_LibShow, <<"2",".","0","0"," ","M","B">>>> >>,
           similar_folders |-> << <<"S","i","m","i","l","a","r"," ","F","o","l","d","e","r"," ","(","s","i","m","i","l","a","r","i","t","y",":"," ","0",".","9","5",")",":"," ","T","h","e"," ","M","o","v","i","e">> >>,
           similar_files |-> << <<F_LibMovie, <<"1"," ","G","i","B">>>> >>]

\* two copies outside the library, the similar one twice as large
F_DownloadShow == <<"/","d","o","w","n","l","o","a","d","s","/","S","h","o","w"," ","N","a","m","e","/","e","1",".","m","k","v">>

G_Double == [base_folder |-> <<"S","h","o","w",".","N","a","m","e",".","W","E","B","R","i","p">>,
             base_files |-> << <<F_BackupShow, <<"1",".","0","0"," ","K","B">>>> >>,
             similar_folders |-> << <<"S","i","m","i","l","a","r"," ","F","o","l","d","e","r"," ","(","s","i","m","i","l","a","r","i","t","y",":"," ","1",".","0","0",")",":"," ","S","h","o","w"," ","N","a","m","e">> >>,
             similar_files |-> << <<F_DownloadShow, <<"2",".","0","0"," ","K","B">>>> >>]

GroupPool == {G_Show, G_Movie, G_Both, G_Double}

\* bound on the number of groups create_cleanup_script is called on
MaxGroups == 2

\* what the scan of /mnt/b and /mnt/c returns
G_Scan == [base_folder |-> N_Show2019, similar_folders |-> <<N_ShowWebRip>>,
           similarity_scores |-> << <<18, 18>> >>,
           files |-> << Root_b \o Slash \o N_Show2019 \o <<"/","e","1",".","m","p","4">>,
                        Root_c \o Slash \o N_ShowWebRip \o <<"/","e","1",".","M","K","V">> >>]

\* the result lists whose report the planner is run on
WrittenResults == { <<>>, <<G_Scan>> }

\* a report in the documented format whose similar folder lists its file
Report_Scenario2 ==
    << ReportTitle, <<>>, <<>>, Rule50, <<"B","a","s","e"," ","F","o","l","d","e","r",":"," ","S","h","o","w"," ","N","a","m","e">>, <<"F","i","l","e","s",":">>,
       <<" ", " ">> \o F_LibShow \o <<" ","(","1",".","5","0"," ","K","B",")">>, <<>>, L_SimilarShow,
       <<" ", " ">> \o F_BackupShow \o <<" ","(","1",".","0","0"," ","K","B",")">> >>

\* a report that starts with a similar-folder line
Report_Headless == << L_SimilarShow, <<" ", " ">> \o F_BackupShow >>

\* the report file does not exist
NoFile == << << "ENOENT" >> >>

ReportPool ==
    { ReportLines(res) : res \in WrittenResults }
        \cup {Report_Scenario2, Report_Headless, NoFile}

\* the planner is run: as a script on a report file, with the configuration
\* in place (main), or by a call of create_cleanup_script on groups
InitPlanner ==
    /\ catalog \in { f \in [Catalogs -> UNION { Answers(c) : c \in Catalogs }] :
                        \A c \in Catalogs : f[c] \in Answers(c) }
    /\ requests_sent = <<>>
    /\ planner_entry \in {"main", "call"}
    /\ IF planner_entry = "main"
       THEN /\ report \in ReportPool
            /\ groups = <<>>
            /\ ppc = "main"
       ELSE /\ report = <<>>
            /\ groups \in DistinctSeqs(GroupPool, MaxGroups)
            /\ ppc = "open"
    /\ paths_cache = [c \in Catalogs |-> [fetched |-> FALSE, paths |-> {}]]
    /\ script = <<>>
    /\ pk = 0
    /\ variant = "find_media_dupes"
    /\ folder_keys = <<>>
    /\ folder_map = <<>>
    /\ cleaned_folders = <<>>
    /\ processed = {}
    /\ similar_groups = <<>>
    /\ current_group = NoGroup
    /\ gi = 0
    /\ gj = 0
    /\ gpc = "idle"
    /\ ScanIdle
    /\ ParallelIdle
    /\ ResolverIdle

nonPlannerVars == <<grouperVars, scanVars, parallelVars, resolverVars>>

\* main: `if not os.path.exists(args.report): ... sys.exit(1)`, then the
\* configuration is loaded and the two clients are built
PlannerStart ==
    /\ ppc = "main"
    /\ ppc' = IF report = NoFile THEN "exit1" ELSE "parse"
    /\ UNCHANGED <<planner_entry, report, groups, paths_cache, script, pk>>
    /\ UNCHANGED <<envVars, nonPlannerVars>>

\* groups = parse_report(args.report); an exception of the loop ends main
ParseReport ==
    /\ ppc = "parse"
    /\ IF parse_report(report).raised
       THEN /\ ppc' = "fault"
            /\ UNCHANGED groups
       ELSE /\ ppc' = "open"
            /\ groups' = parse_report(report).groups
    /\ UNCHANGED <<planner_entry, report, paths_cache, script, pk>>
    /\ UNCHANGED <<envVars, nonPlannerVars>>

\* create_cleanup_script opens the script and writes the safe_remove function
OpenScript ==
    /\ ppc = "open"
    /\ script' = << ScriptLine("preamble", 0, <<>>, "") >>
    /\ pk' = 1
    /\ ppc' = "plan"
    /\ UNCHANGED <<planner_entry, report, groups, paths_cache>>
    /\ UNCHANGED <<envVars, nonPlannerVars>>

\* the lines of one iteration reach the script; the line "raised" ends the run
WriteGroup(lines) ==
    IF lines[Len(lines)].kind = "raised"
    THEN /\ script' = script \o SubSeq(lines, 1, Len(lines) - 1)
         /\ ppc' = "fault"
         /\ pk' = pk
    ELSE /\ script' = script \o lines
         /\ ppc' = ppc
         /\ pk' = pk + 1

\* one iteration of `for i, group in enumerate(groups, 1)`, with the calls of
\* the two clients it makes; an exception of format_size_bytes ends the run
PlanGroup ==
    /\ ppc = "plan"
    /\ pk <= Len(groups)
    /\ WriteGroup(GroupScript(pk, groups[pk]))
    /\ LET called == [c \in Catalogs |-> Called(c, groups[pk])]
           after == [c \in Catalogs |-> CacheAfterCall(c)]
       IN  /\ paths_cache' = [c \in Catalogs |-> IF called[c] THEN after[c] ELSE paths_cache[c]]
           /\ requests_sent' = requests_sent
                                 \o SelectSeq(<<"sonarr", "radarr">>,
                                              LAMBDA c : called[c] /\ ~paths_cache[c].fetched)
    /\ UNCHANGED <<planner_entry, report, groups, catalog>>
    /\ UNCHANGED nonPlannerVars

\* the loop is over: the script is closed and main returns
PlannerDone ==
    /\ ppc = "plan"
    /\ pk > Len(groups)
    /\ ppc' = "done"
    /\ UNCHANGED <<planner_entry, report, groups, paths_cache, script, pk>>
    /\ UNCHANGED <<envVars, nonPlannerVars>>

NextPlanner ==
    \/ PlannerStart
    \/ ParseReport
    \/ OpenScript
    \/ PlanGroup
    \/ PlannerDone

SpecPlanner == InitPlanner /\ [][NextPlanner]_vars

(***************************************************************************)
(* Properties of the Cleanup Planner.                                      *)
(***************************************************************************)
\* the directories the catalogs report: the path of every entry of every
\* catalog that answers with success
CatalogPaths ==
    UNION { { normalize_path(catalog[c].entries[i].path) : i \in DOMAIN catalog[c].entries } :
            c \in { d \in Catalogs : catalog[d].kind = "ok" } }

\* a list of (file, size) tuples holds a file that lies in a directory a
\* catalog reports
SideManaged(files) ==
    \E i \in DOMAIN files : PathParent(normalize_path(files[i][1])) \in CatalogPaths

\* the files group number g has a safe_remove line for
Removed(g) ==
    { script[i].file : i \in { j \in DOMAIN script :
                                 script[j].group = g /\ script[j].kind = "safe_remove" } }

\* group number g is marked 'Manual review required'
MarkedManual(g) ==
    \E i \in DOMAIN script : script[i].group = g /\ script[i].kind = "manual_review"

FilesOf(files) == { files[i][1] : i \in DOMAIN files }

\* C2: for every group create_cleanup_script has processed, safe_remove lines
\* are written iff exactly one of its two sides holds a catalog-managed file:
\* then they name every file of the unmanaged side and no other file; when
\* both sides or neither side are managed nothing is removed and the group is
\* marked 'Manual review required'.
C2_RemovalIffExactlyOneSideManaged ==
    \A g \in 1..(pk - 1) :
        LET base    == SideManaged(groups[g].base_files)
            similar == SideManaged(groups[g].similar_files)
        IN  /\ (base /\ ~similar)
                  => Removed(g) = FilesOf(groups[g].similar_files) /\ ~MarkedManual(g)
            /\ (similar /\ ~base)
                  => Removed(g) = FilesOf(groups[g].base_files) /\ ~MarkedManual(g)
            /\ (base = similar) => Removed(g) = {} /\ MarkedManual(g)

\* C3: end-to-end scenario 2 -- Sonarr reports 'Show Name' at
\* /library/tv/Show Name and the report lists a file under that directory on
\* one side and a file under /backup/tv/Show.Name.WEBRip on the other; once the
\* planner (parse_report, then create_cleanup_script) has finished, the script
\* removes the backup file and does not remove the library file.
C3_Scenario2BackupRemoved ==
    (/\ planner_entry = "main"
     /\ report = Report_Scenario2
     /\ catalog["sonarr"] = Ok(<<E_Show>>)
     /\ ppc = "done")
        => \E g \in 1..Len(groups) : F_BackupShow \in Removed(g) /\ F_LibShow \notin Removed(g)

\* the (path, size) tuples of a parsed group
FilesOfTuples(group) ==
    { group.base_files[i] : i \in DOMAIN group.base_files }
        \cup { group.similar_files[i] : i \in DOMAIN group.similar_files }

\* the size string the report carries for a file
WrittenSize(file) == IF StatSize(file) >= 0 THEN format_size(StatSize(file)) ELSE Unknown

\* C8: report round trip -- when the report is the one written for a list of
\* duplicate groups, parse_report returns exactly one group per written
\* group, with the same base folder name, and every written file path is in
\* that group's base_files or similar_files with its size string (or
\* 'Unknown').
C8_ReportRoundTrip ==
    \A res \in WrittenResults :
        (/\ planner_entry = "main"
         /\ report = ReportLines(res)
         /\ ppc \in {"open", "plan", "done"})
            => /\ Len(groups) = Len(res)
               /\ \A k \in DOMAIN res :
                     /\ groups[k].base_folder = res[k].base_folder
                     /\ \A i \in DOMAIN res[k].files :
                           \E tup \in FilesOfTuples(groups[k]) :
                               /\ tup[1] = res[k].files[i]
                               /\ tup[2] = WrittenSize(res[k].files[i])

\* the number of requests sent to catalog c so far
RequestCount(c) == Cardinality({ i \in DOMAIN requests_sent : requests_sent[i] = c })

\* C11: at most one request per catalog per run and no retry -- over the
\* check_media_server_paths calls of one planner run each catalog's collection
\* endpoint is requested at most once, and a catalog that was requested, with
\* success or not, holds a stored result (its _paths_cache is no longer None)
\* that later lookups use.
C11_OneRequestPerCatalog ==
    \A c \in Catalogs :
        /\ RequestCount(c) <= 1
        /\ RequestCount(c) = 1 <=> paths_cache[c].fetched

\* both groups of a run were looked up, the first request to Sonarr failed
C11_Witness ==
    /\ Len(groups) = 2
    /\ pk > 2
    /\ catalog["sonarr"].kind \in Failures
    /\ RequestCount("sonarr") = 1

\* the sides group number g has a 'Suggestion: Keep ... files' line for
Suggested(g) ==
    { script[i].note : i \in { j \in DOMAIN script :
                                 script[j].group = g /\ script[j].kind = "suggestion" } }

\* every file of a list of (file, size) tuples has the size 'Unknown'
AllUnknown(files) == \A i \in DOMAIN files : files[i][2] = Unknown

\* C15: a size suggestion is emitted only when sizes are known on both sides
\* -- a processed group marked 'Manual review required' in which every file
\* of one side has the size 'Unknown' gets no 'Suggestion: Keep ...' line.
C15_NoSuggestionWithUnknownSizes ==
    \A g \in 1..(pk - 1) :
        (/\ MarkedManual(g)
         /\ \/ (groups[g].base_files # <<>> /\ AllUnknown(groups[g].base_files))
            \/ (groups[g].similar_files # <<>> /\ AllUnknown(groups[g].similar_files)))
            => Suggested(g) = {}

\* every size of a list of (file, size) tuples is a '<number> <unit>' string
KnownSizes(files) ==
    /\ files # <<>>
    /\ \A i \in DOMAIN files : files[i][2] # Unknown /\ format_size_bytes(files[i][2]) >= 0

\* the largest size in bytes of a list of (file, size) tuples
LargestSize(files) == Max({ format_size_bytes(files[i][2]) : i \in DOMAIN files })

\* C16: size heuristic in manual review (scenario 3) -- for a processed group
\* with no catalog-managed file on either side and known sizes on both sides
\* the script says 'Manual review required', removes nothing, and suggests
\* keeping a side exactly when that side's largest file is strictly more than
\* 1.5 times the other side's largest file; it never suggests both sides.
C16_SizeHeuristic ==
    \A g \in 1..(pk - 1) :
        (/\ ~SideManaged(groups[g].base_files)
         /\ ~SideManaged(groups[g].similar_files)
         /\ KnownSizes(groups[g].base_files)
         /\ KnownSizes(groups[g].similar_files))
            => LET max_base    == LargestSize(groups[g].base_files)
                   max_similar == LargestSize(groups[g].similar_files)
               IN  /\ MarkedManual(g)
                   /\ Removed(g) = {}
                   /\ "base" \in Suggested(g) <=> 2 * max_base > 3 * max_similar
                   /\ "similar" \in Suggested(g) <=> 2 * max_similar > 3 * max_base
                   /\ Cardinality(Suggested(g)) <= 1

\* a run has processed the group whose similar side is twice as large and the
\* group whose base side is exactly 1.5 times as large, no catalog reporting
\* any of their directories
C16_Witness ==
    /\ pk > 2
    /\ { groups[1], groups[2] } = { G_Double, G_Show }
    /\ CatalogPaths = {}
    /\ \E g \in 1..2 : Suggested(g) = {"similar"}
    /\ \E g \in 1..2 : MarkedManual(g) /\ Suggested(g) = {}

\* C18: malformed report records never raise -- for every report text,
\* parse_report followed by create_cleanup_script finishes without an
\* unhandled exception.
C18_MalformedRecordsNeverRaise == planner_entry = "main" => ppc # "fault"

(***************************************************************************)
(* Official-path resolver (get_official_paths.py).                         *)
(***************************************************************************)
\* os.path.basename: what follows the last "/"
basename(path) ==
    LET sl == { i \in DOMAIN path : path[i] = "/" }
    IN  IF sl = {} THEN path ELSE From(path, Max(sl) + 1)

\* os.path.dirname: what precedes the last "/", without trailing slashes
\* unless it consists of slashes only
dirname(path) ==
    LET sl   == { i \in DOMAIN path : path[i] = "/" }
        head == IF sl = {} THEN <<>> ELSE SubSeq(path, 1, Max(sl))
        keep == { i \in DOMAIN head : head[i] # "/" }
    IN  IF keep = {} THEN head ELSE SubSeq(head, 1, Max(keep))

\* a conversion that tries the mappings in the order they are listed
convert_container_path_to_host_path_Unsorted(container_path, mappings) ==
    LET hits == { i \in DOMAIN mappings :
                     StartsWith(container_path, mappings[i].container_path) }
        best == Min(hits)
        rest == From(container_path, Len(mappings[best].container_path) + 1)
        rel  == IF \A i \in DOMAIN rest : rest[i] = "/" THEN <<>>
                ELSE From(rest, Min({ i \in DOMAIN rest : rest[i] # "/" }))
        host == mappings[best].host_path
    IN  IF hits = {} THEN container_path
        ELSE IF host = <<>> THEN rel
        ELSE IF host[Len(host)] = "/" THEN host \o rel
        ELSE host \o Slash \o rel

\* convert_container_path_to_host_path: the mappings are tried by decreasing
\* length of container_path (sorted() is stable); the first one that is a
\* prefix of the path is applied
convert_container_path_to_host_path(container_path, mappings) ==
    LET hits == { i \in DOMAIN mappings :
                     StartsWith(container_path, mappings[i].container_path) }
        best == CHOOSE i \in hits : \A j \in hits :
                    \/ Len(mappings[i].container_path) > Len(mappings[j].container_path)
                    \/ /\ Len(mappings[i].container_path) = Len(mappings[j].container_path)
                       /\ i <= j
        rest == From(container_path, Len(mappings[best].container_path) + 1)
        rel  == IF \A i \in DOMAIN rest : rest[i] = "/" THEN <<>>
                ELSE From(rest, Min({ i \in DOMAIN rest : rest[i] # "/" }))
        host == mappings[best].host_path
    IN  IF hits = {} THEN container_path
        ELSE IF host = <<>> THEN rel
        ELSE IF host[Len(host)] = "/" THEN host \o rel
        ELSE host \o Slash \o rel

\* d[key] = value on a dict kept as the sequence of its items in insertion
\* order: an existing key keeps its place
DictSet(d, key, value) ==
    IF \E i \in DOMAIN d : d[i].key = key
    THEN [i \in DOMAIN d |-> IF d[i].key = key THEN [key |-> key, value |-> value] ELSE d[i]]
    ELSE Append(d, [key |-> key, value |-> value])

\* the loop `for series in series_list` / `for movie in movies_list` from
\* entry i on, on st = [details, map, raised]: an entry with a title and a
\* path is stored under its title and under the basename of its host path;
\* an entry that is no JSON object raises (caught by `except Exception`)
RECURSIVE StoreEntries(_, _, _, _)
StoreEntries(type, entries, i, st) ==
    IF i > Len(entries) \/ st.raised THEN st
    ELSE LET e         == entries[i]
             host_path == convert_container_path_to_host_path(e.path, docker_mappings)
             info      == [type |-> type, title |-> e.title, host_path |-> host_path,
                           match_type |-> <<>>]
         IN  IF ~e.object THEN [st EXCEPT !.raised = TRUE]
             ELSE IF e.title = <<>> \/ e.path = <<>>
             THEN StoreEntries(type, entries, i + 1, st)
             ELSE StoreEntries(type, entries, i + 1,
                      [st EXCEPT !.details = DictSet(@, e.title, info),
                                 !.map = DictSet(@, basename(host_path), info)])

T_series == <<"s","e","r","i","e","s">>

T_movie == <<"m","o","v","i","e">>

\* a fetch that hands back the details dict whatever happened
Fetch_ReturnsDetails(c) ==
    LET details == IF c = "sonarr" THEN sonarr_series_details ELSE radarr_movie_details
        before  == [details |-> details, map |-> folder_to_path_map, raised |-> FALSE]
        after   == StoreEntries(IF c = "sonarr" THEN T_series ELSE T_movie,
                                catalog[c].entries, 1, before)
    IN  IF ~api_keys[c] THEN before @@ [requested |-> FALSE, returned |-> "details"]
        ELSE IF catalog[c].kind # "ok" THEN before @@ [requested |-> TRUE, returned |-> "details"]
        ELSE after @@ [requested |-> TRUE, returned |-> "details"]

\* the state get_sonarr_series / get_radarr_movies leaves for catalog c, and
\* what it returns: "empty" for `return {}`, "details" for the details dict
Fetch(c) ==
    LET details == IF c = "sonarr" THEN sonarr_series_details ELSE radarr_movie_details
        before  == [details |-> details, map |-> folder_to_path_map, raised |-> FALSE]
        after   == StoreEntries(IF c = "sonarr" THEN T_series ELSE T_movie,
                                catalog[c].entries, 1, before)
    IN  IF ~api_keys[c] THEN before @@ [requested |-> FALSE, returned |-> "empty"]
        ELSE IF catalog[c].kind # "ok" THEN before @@ [requested |-> TRUE, returned |-> "empty"]
        ELSE after @@ [requested |-> TRUE,
                       returned |-> IF after.raised THEN "empty" ELSE "details"]

\* the names of the top-level media directories
category_names == { <<"f","i","l","m","s">>, <<"m","o","v","i","e","s">>, <<"t","e","l","e","v","i","s","i","o","n">>, <<"t","v">>, <<"v","i","d","e","o","s">> }

\* is_protected_path with `roots` as self.root_folders_to_ignore: only the
\* path equal to a root is recognised
is_protected_path_EqualOnly(path, roots) ==
    \E i \in DOMAIN roots : path = roots[i] /\ Lower(basename(path)) \in category_names

\* is_protected_path with `roots` as self.root_folders_to_ignore
is_protected_path(path, roots) ==
    \E i \in DOMAIN roots :
        /\ path = roots[i] \/ StartsWith(path, roots[i] \o Slash)
        /\ Lower(basename(path)) \in category_names

\* group(1) of re.match(r'(.+?)(?:\s+\((\d{4})\))?$', name), lower-cased and
\* stripped: the name without a trailing " (dddd)"; <<"no match">> when the
\* pattern does not match (the empty name)
movie_name(name) ==
    LET n    == Len(name)
        year == /\ n >= 8
                /\ name[n] = ")"
                /\ name[n - 5] = "("
                /\ \A i \in (n - 4)..(n - 1) : IsDigit(name[i])
                /\ IsSpace(name[n - 6])
        stem == { i \in 1..(n - 6) : ~IsSpace(name[i]) \/ i = 1 }
    IN  IF name = <<>> THEN << "no match" >>
        ELSE IF year THEN Strip(Lower(SubSeq(name, 1, Max(stem))))
        ELSE Strip(Lower(name))

media_dirs == { <<"m","o","v","i","e","s">>, <<"t","e","l","e","v","i","s","i","o","n">>, <<"t","v">>, <<"s","e","r","i","e","s">>, <<"f","i","l","m","s">>, <<"s","h","o","w","s">> }

\* are_related_media_paths(path1, path2, folder_name)
are_related_media_paths(path1, path2, folder_name) ==
    LET b1 == Lower(basename(path1))
        b2 == Lower(basename(path2))
        m1 == movie_name(basename(path1))
        m2 == movie_name(basename(path2))
    IN  \/ b1 = b2
        \/ folder_name # <<>> /\ (b1 = Lower(folder_name) \/ b2 = Lower(folder_name))
        \/ /\ m1 # << "no match" >>
           /\ m2 # << "no match" >>
           /\ m1 = m2 \/ Contains(m2, m1) \/ Contains(m1, m2)
        \/ /\ Lower(basename(dirname(path1))) \in media_dirs
           /\ Lower(basename(dirname(path2))) \in media_dirs
           /\ b1 = b2

\* the test of the path_comparison tier on one catalog path and one
\* duplicate path
PathsMatch(host_path, dup_path, folder_name) ==
    LET hb == Lower(basename(host_path))
        db == Lower(basename(dup_path))
    IN  /\ hb = db \/ Contains(db, hb) \/ Contains(hb, db)
        /\ \/ host_path = dup_path
           \/ dirname(host_path) = dirname(dup_path)
           \/ StartsWith(host_path, dup_path \o Slash)
           \/ StartsWith(dup_path, host_path \o Slash)
           \/ are_related_media_paths(host_path, dup_path, folder_name)

\* the test of the fuzzy_name tier on one catalog path
NamesMatch(host_path, folder_name) ==
    LET f == Lower(folder_name)
        d == Lower(basename(host_path))
    IN  f = d \/ Contains(d, f) \/ Contains(f, d)

\* the details of both catalogs in the order the tiers go through them:
\* series first, then movies
AllDetails == sonarr_series_details \o radarr_movie_details

\* the entry returned for its first item that satisfies P, tagged with the tier
FirstDetail(P(_), tier) ==
    LET i == Min({ j \in DOMAIN AllDetails : P(AllDetails[j].value) })
    IN  [AllDetails[i].value EXCEPT !.match_type = tier]

NoInfo == [type |-> <<>>, title |-> <<>>, host_path |-> <<>>, match_type |-> << "None" >>]

\* get_official_path_for_folder without its first tier
get_official_path_for_folder_NoDirect(folder_name, duplicate_paths) ==
    LET ByPath(d) == \E k \in DOMAIN duplicate_paths :
                         PathsMatch(d.host_path, duplicate_paths[k], folder_name)
        ByName(d) == NamesMatch(d.host_path, folder_name)
    IN  IF \E j \in DOMAIN AllDetails : ByPath(AllDetails[j].value)
        THEN FirstDetail(ByPath, <<"p","a","t","h","_","c","o","m","p","a","r","i","s","o","n">>)
        ELSE IF folder_name # <<>> /\ \E j \in DOMAIN AllDetails : ByName(AllDetails[j].value)
        THEN FirstDetail(ByName, <<"f","u","z","z","y","_","n","a","m","e">>)
        ELSE NoInfo

\* get_official_path_for_folder: the entry of the folder-name index, else the
\* first entry matched by path comparison, else the first one matched by
\* name, else None
get_official_path_for_folder(folder_name, duplicate_paths) ==
    LET ByPath(d) == \E k \in DOMAIN duplicate_paths :
                         PathsMatch(d.host_path, duplicate_paths[k], folder_name)
        ByName(d) == NamesMatch(d.host_path, folder_name)
        direct    == { i \in DOMAIN folder_to_path_map :
                          folder_to_path_map[i].key = folder_name }
    IN  IF direct # {} THEN folder_to_path_map[Min(direct)].value
        ELSE IF \E j \in DOMAIN AllDetails : ByPath(AllDetails[j].value)
        THEN FirstDetail(ByPath, <<"p","a","t","h","_","c","o","m","p","a","r","i","s","o","n">>)
        ELSE IF folder_name # <<>> /\ \E j \in DOMAIN AllDetails : ByName(AllDetails[j].value)
        THEN FirstDetail(ByName, <<"f","u","z","z","y","_","n","a","m","e">>)
        ELSE NoInfo

\* the text of a file: every line followed by a newline
RECURSIVE Content(_)
Content(lines) == IF lines = <<>> THEN <<>> ELSE lines[1] \o <<"\n">> \o Content(Tail(lines))

\* the paths re.finditer(r"^\s+(/.*?)$", record, re.MULTILINE) yields on the
\* lines of a record, stripped: \s+ runs over line ends, so a line matches
\* when its first non-blank character is "/" and it is indented or follows a
\* blank line
RecordPaths(ls) ==
    LET IsPath(i) == /\ NonSpace(ls[i]) # {}
                     /\ ls[i][Min(NonSpace(ls[i]))] = "/"
                     /\ \/ IsSpace(ls[i][1])
                        \/ i > 1 /\ NonSpace(ls[i - 1]) = {}
    IN  [k \in 1..Cardinality({ i \in DOMAIN ls : IsPath(i) }) |->
            Strip(ls[CHOOSE i \in DOMAIN ls :
                        IsPath(i) /\ Cardinality({ j \in 1..i : IsPath(j) }) = k])]

\* the body of `for record in records` on one record: <<>> when the record is
\* skipped, else the one result appended for it
RecordResult(record, roots) ==
    LET ls     == Split(record, <<"\n">>)
        tag    == <<"F","o","l","d","e","r",":"," ">>
        named  == { i \in DOMAIN ls : Contains(ls[i], tag) }
        line   == ls[Min(named)]
        folder == Strip(From(line, FindFrom(line, tag, 1) + Len(tag)))
        paths  == SelectSeq(RecordPaths(ls), LAMBDA p : ~is_protected_path(p, roots))
    IN  IF named = {} \/ paths = <<>> THEN <<>>
        ELSE << [folder |-> folder, duplicate_paths |-> paths,
                 official_info |-> get_official_path_for_folder(folder, paths)] >>

\* lookup_duplicate_folders: the results for the records from the k-th on
RECURSIVE LookupFrom(_, _, _)
LookupFrom(records, k, roots) ==
    IF k > Len(records) THEN <<>>
    ELSE RecordResult(records[k], roots) \o LookupFrom(records, k + 1, roots)

\* lookup_duplicate_folders(duplicate_folders_file)
lookup_duplicate_folders(lines, roots) ==
    IF lines = NoFile THEN <<>>
    ELSE LookupFrom(Split(Content(lines), Rule50), 1, roots)

\* the lines generate_updated_report writes for the results from the k-th on
RECURSIVE UpdatedLines(_, _)
UpdatedLines(res, k) ==
    IF k > Len(res) THEN <<>>
    ELSE LET info  == res[k].official_info
             paths == res[k].duplicate_paths
         IN  << <<"F","o","l","d","e","r",":"," ">> \o res[k].folder >>
             \o (IF info # NoInfo
                 THEN << <<"O","f","f","i","c","i","a","l"," ","P","a","t","h"," ","(">> \o info.type \o <<")", ":", " ">> \o info.host_path,
                         <<"T","i","t","l","e",":"," ">> \o info.title,
                         <<"M","a","t","c","h"," ","T","y","p","e",":"," ">>
                             \o (IF info.match_type = <<>> THEN <<"d","i","r","e","c","t">>
                                 ELSE info.match_type) >>
                 ELSE << <<"O","f","f","i","c","i","a","l"," ","P","a","t","h",":"," ","U","n","k","n","o","w","n"," ","(","n","o","t"," ","f","o","u","n","d"," ","i","n"," ","S","o","n","a","r","r"," ","o","r"," ","R","a","d","a","r","r",")">> >>)
             \o << <<>>, <<"D","u","p","l","i","c","a","t","e"," ","P","a","t","h","s",":">> >>
             \o [i \in DOMAIN paths |->
                    IF info # NoInfo /\ Contains(paths[i], info.host_path)
                    THEN <<" ", " ">> \o paths[i] \o <<" ","(","O","F","F","I","C","I","A","L",")">>
                    ELSE <<" ", " ">> \o paths[i]]
             \o << <<>>, Rule50, <<>> >>
             \o UpdatedLines(res, k + 1)

\* generate_updated_report(results, output_file): the lines of the file
generate_updated_report(res) ==
    LET found == Cardinality({ k \in DOMAIN res : res[k].official_info # NoInfo })
    IN  << <<"=","=","="," ","U","p","d","a","t","e","d"," ","M","e","d","i","a"," ","D","u","p","l","i","c","a","t","e","s"," ","R","e","p","o","r","t"," ","=","=","=">>, <<>> >>
        \o UpdatedLines(res, 1)
        \o << <<>>, <<"S","u","m","m","a","r","y",":">>,
              <<"T","o","t","a","l"," ","d","u","p","l","i","c","a","t","e"," ","f","o","l","d","e","r","s",":"," ">> \o IntToStr(Len(res)),
              <<"F","o","u","n","d"," ","i","n"," ","S","o","n","a","r","r","/","R","a","d","a","r","r",":"," ">> \o IntToStr(found),
              <<"N","o","t"," ","f","o","u","n","d"," ","i","n"," ","S","o","n","a","r","r","/","R","a","d","a","r","r",":"," ">> \o IntToStr(Len(res) - found) >>

\* DEFAULT_ROOT_FOLDERS_TO_IGNORE, and a configuration that protects /media
ProtectedPool ==
    { << <<"/","m","e","d","i","a","/","M","o","v","i","e","s">>, <<"/","m","e","d","i","a","/","T","V">>, <<"/","m","e","d","i","a","/","T","e","l","e","v","i","s","i","o","n">> >>,
      << <<"/","m","e","d","i","a">> >> }

MappingPool ==
    { <<>>, << [host_path |-> <<"/","s","r","v">>, container_path |-> <<"/","l","i","b","r","a","r","y">>] >> }

\* a report of quick_duplicate_finder.py: one folder the movie catalog knows
\* by name, one media root with protected and unprotected candidates
Report_Folders ==
    << <<"=","=","="," ","M","e","d","i","a"," ","D","u","p","l","i","c","a","t","e"," ","F","o","l","d","e","r","s"," ","R","e","p","o","r","t"," ","=","=","=">>, <<>>,
       <<"F","o","l","d","e","r",":"," ","S","h","o","w"," ","N","a","m","e"," ","(","2","0","1","9",")">>,
       <<"O","f","f","i","c","i","a","l"," ","P","a","t","h",":"," ","U","n","k","n","o","w","n"," ","(","n","o","t"," ","f","o","u","n","d"," ","i","n"," ","S","o","n","a","r","r"," ","o","r"," ","R","a","d","a","r","r",")">>, <<>>,
       <<"D","u","p","l","i","c","a","t","e"," ","P","a","t","h","s",":">>,
       <<" "," ","/","b","a","c","k","u","p","/","t","v","/","S","h","o","w"," ","N","a","m","e">>,
       <<" "," ","/","b","a","c","k","u","p","/","S","h","o","w"," ","N","a","m","e"," ","(","2","0","1","9",")">>, <<>>, Rule50, <<>>,
       <<"F","o","l","d","e","r",":"," ","M","o","v","i","e","s">>,
       <<"O","f","f","i","c","i","a","l"," ","P","a","t","h",":"," ","U","n","k","n","o","w","n"," ","(","n","o","t"," ","f","o","u","n","d"," ","i","n"," ","S","o","n","a","r","r"," ","o","r"," ","R","a","d","a","r","r",")">>, <<>>,
       <<"D","u","p","l","i","c","a","t","e"," ","P","a","t","h","s",":">>,
       <<" "," ","/","m","e","d","i","a","/","M","o","v","i","e","s">>,
       <<" "," ","/","m","e","d","i","a","/","T","V","/","t","v">>,
       <<" "," ","/","m","e","d","i","a","/","M","o","v","i","e","s","/","T","h","e"," ","M","o","v","i","e">>, <<>>, Rule50, <<>>,
       <<"F","o","l","d","e","r",":"," ","T","V">>, <<>>,
       <<"D","u","p","l","i","c","a","t","e"," ","P","a","t","h","s",":">>,
       <<" "," ","/","m","e","d","i","a","/","T","V">>, <<>>, Rule50, <<>>, <<>>,
       <<"S","u","m","m","a","r","y",":">>,
       <<"T","o","t","a","l"," ","d","u","p","l","i","c","a","t","e"," ","f","o","l","d","e","r","s",":"," ","3">> >>

DupReportPool == {Report_Folders, ReportLines(<<G_Scan>>), Report_Scenario2, NoFile}

\* a resolver run. load_protected_dirs is defined nowhere in the repository:
\* in a run of the script the name is unbound (loader = "undefined"); a
\* program that imports the module and binds the name before it builds the
\* object (loader = "host") gets the protected roots from it. No custom
\* mappings file is given (--mappings defaults to None).
InitResolver ==
    /\ catalog \in { f \in [Catalogs -> UNION { Answers(c) : c \in Catalogs }] :
                        \A c \in Catalogs : f[c] \in Answers(c) }
    /\ requests_sent = <<>>
    /\ loader \in {"undefined", "host"}
    /\ api_keys \in [Catalogs -> BOOLEAN]
    /\ docker_mappings \in MappingPool
    /\ dup_report \in DupReportPool
    /\ sonarr_series_details = <<>>
    /\ radarr_movie_details = <<>>
    /\ folder_to_path_map = <<>>
    /\ root_folders_to_ignore = <<>>
    /\ fetch_result = [c \in Catalogs |-> "not called"]
    /\ gofp_calls = <<>>
    /\ results = <<>>
    /\ updated_report = <<>>
    /\ rpc = "construct"
    /\ variant = "find_media_dupes"
    /\ folder_keys = <<>>
    /\ folder_map = <<>>
    /\ cleaned_folders = <<>>
    /\ processed = {}
    /\ similar_groups = <<>>
    /\ current_group = NoGroup
    /\ gi = 0
    /\ gj = 0
    /\ gpc = "idle"
    /\ ScanIdle
    /\ ParallelIdle
    /\ PlannerIdle

nonResolverVars == <<grouperVars, scanVars, parallelVars, plannerVars>>

\* MediaServerPathLookup.__init__: the call of load_protected_dirs raises
\* NameError when the name is unbound
Construct ==
    /\ rpc = "construct"
    /\ IF loader = "undefined"
       THEN /\ rpc' = "fault"
            /\ UNCHANGED root_folders_to_ignore
       ELSE /\ rpc' = "sonarr"
            /\ root_folders_to_ignore' \in ProtectedPool
    /\ UNCHANGED <<loader, api_keys, docker_mappings, dup_report, sonarr_series_details,
                   radarr_movie_details, folder_to_path_map, fetch_result, gofp_calls,
                   results, updated_report>>
    /\ UNCHANGED <<envVars, nonResolverVars>>

\* lookup.get_sonarr_series()
GetSonarrSeries ==
    /\ rpc = "sonarr"
    /\ sonarr_series_details' = Fetch("sonarr").details
    /\ folder_to_path_map' = Fetch("sonarr").map
    /\ fetch_result' = [fetch_result EXCEPT !["sonarr"] = Fetch("sonarr").returned]
    /\ requests_sent' = IF Fetch("sonarr").requested THEN Append(requests_sent, "sonarr")
                        ELSE requests_sent
    /\ rpc' = "radarr"
    /\ UNCHANGED <<loader, api_keys, docker_mappings, dup_report, radarr_movie_details,
                   root_folders_to_ignore, gofp_calls, results, updated_report>>
    /\ UNCHANGED <<catalog, nonResolverVars>>

\* lookup.get_radarr_movies()
GetRadarrMovies ==
    /\ rpc = "radarr"
    /\ radarr_movie_details' = Fetch("radarr").details
    /\ folder_to_path_map' = Fetch("radarr").map
    /\ fetch_result' = [fetch_result EXCEPT !["radarr"] = Fetch("radarr").returned]
    /\ requests_sent' = IF Fetch("radarr").requested THEN Append(requests_sent, "radarr")
                        ELSE requests_sent
    /\ rpc' = "lookup"
    /\ UNCHANGED <<loader, api_keys, docker_mappings, dup_report, sonarr_series_details,
                   root_folders_to_ignore, gofp_calls, results, updated_report>>
    /\ UNCHANGED <<catalog, nonResolverVars>>

\* lookup.add_custom_mappings(None), then
\* results = lookup.lookup_duplicate_folders(args.input); every result comes
\* from one call of get_official_path_for_folder on its folder and paths
LookupDuplicateFolders ==
    /\ rpc = "lookup"
    /\ results' = lookup_duplicate_folders(dup_report, root_folders_to_ignore)
    /\ gofp_calls' = [k \in DOMAIN results' |->
                         [folder_name |-> results'[k].folder,
                          duplicate_paths |-> results'[k].duplicate_paths]]
    /\ rpc' = "report"
    /\ UNCHANGED <<loader, api_keys, docker_mappings, dup_report, sonarr_series_details,
                   radarr_movie_details, folder_to_path_map, root_folders_to_ignore,
                   fetch_result, updated_report>>
    /\ UNCHANGED <<envVars, nonResolverVars>>

\* `if results:` the updated report is written; main returns either way
FinishResolver ==
    /\ rpc = "report"
    /\ updated_report' = IF results # <<>> THEN generate_updated_report(results)
                         ELSE updated_report
    /\ rpc' = "done"
    /\ UNCHANGED <<loader, api_keys, docker_mappings, dup_report, sonarr_series_details,
                   radarr_movie_details, folder_to_path_map, root_folders_to_ignore,
                   fetch_result, gofp_calls, results>>
    /\ UNCHANGED <<envVars, nonResolverVars>>

NextResolver ==
    \/ Construct
    \/ GetSonarrSeries
    \/ GetRadarrMovies
    \/ LookupDuplicateFolders
    \/ FinishResolver

SpecResolver == InitResolver /\ [][NextResolver]_vars

\* the volume mappings of the path-mapping runs: /data/tv and /data/tv/anime
\* (the nested pair), /data with a host path that ends in a slash, and a
\* second service that mounts another host directory at /data/tv
M_tv == [host_path |-> <<"/","m","n","t","/","t","v">>, container_path |-> <<"/","d","a","t","a","/","t","v">>]

M_anime == [host_path |-> <<"/","m","n","t","/","a","n","i","m","e">>, container_path |-> <<"/","d","a","t","a","/","t","v","/","a","n","i","m","e">>]

M_data == [host_path |-> <<"/","s","r","v","/">>, container_path |-> <<"/","d","a","t","a">>]

M_tv_other == [host_path |-> <<"/","m","n","t","/","o","t","h","e","r">>, container_path |-> <<"/","d","a","t","a","/","t","v">>]

\* bound on the number of volume mappings
MaxMappings == 2

MappingLists == DistinctSeqs({M_tv, M_anime, M_data, M_tv_other}, MaxMappings)

\* the paths the series catalog reports in those runs
P_AnimeShow == <<"/","d","a","t","a","/","t","v","/","a","n","i","m","e","/","S","h","o","w">>

CatalogPathPool ==
    { P_AnimeShow, <<"/","d","a","t","a","/","t","v","/","S","h","o","w">>, <<"/","d","a","t","a","/","t","v","s","h","o","w","s","/","S","h","o","w">>, <<"/","d","a","t","a","/","t","v">>,
      <<"/","o","t","h","e","r","/","S","h","o","w">> }

\* a resolver run, built by a program that binds load_protected_dirs, with
\* both API keys, on drawn volume mappings and a series catalog that reports
\* one series at a drawn path
InitPathMapping ==
    /\ \E p \in CatalogPathPool :
          catalog = [c \in Catalogs |->
                        IF c = "sonarr"
                        THEN Ok(<< [object |-> TRUE, title |-> E_Show.title, path |-> p] >>)
                        ELSE Ok(<<>>)]
    /\ requests_sent = <<>>
    /\ loader = "host"
    /\ api_keys = [c \in Catalogs |-> TRUE]
    /\ docker_mappings \in MappingLists
    /\ dup_report = Report_Folders
    /\ sonarr_series_details = <<>>
    /\ radarr_movie_details = <<>>
    /\ folder_to_path_map = <<>>
    /\ root_folders_to_ignore = <<>>
    /\ fetch_result = [c \in Catalogs |-> "not called"]
    /\ gofp_calls = <<>>
    /\ results = <<>>
    /\ updated_report = <<>>
    /\ rpc = "construct"
    /\ variant = "find_media_dupes"
    /\ folder_keys = <<>>
    /\ folder_map = <<>>
    /\ cleaned_folders = <<>>
    /\ processed = {}
    /\ similar_groups = <<>>
    /\ current_group = NoGroup
    /\ gi = 0
    /\ gj = 0
    /\ gpc = "idle"
    /\ ScanIdle
    /\ ParallelIdle
    /\ PlannerIdle

SpecPathMapping == InitPathMapping /\ [][NextResolver]_vars

\* the two programs that query the catalogs
InitCatalogClients == InitPlanner \/ InitResolver

NextCatalogClients == NextPlanner \/ NextResolver

SpecCatalogClients == InitCatalogClients /\ [][NextCatalogClients]_vars

(***************************************************************************)
(* Properties of the official-path resolver and of the catalog clients.    *)
(***************************************************************************)
\* a path equal to or nested under a protected root whose own basename is a
\* top-level media-category name
ProtectedCandidate(path) ==
    \E i \in DOMAIN root_folders_to_ignore :
        LET root == root_folders_to_ignore[i]
        IN  /\ \/ path = root
               \/ Len(path) > Len(root) /\ SubSeq(path, 1, Len(root) + 1) = root \o Slash
            /\ Lower(basename(path)) \in category_names

\* C4: protected-path exclusion -- no protected candidate path is among the
\* duplicate_paths passed to get_official_path_for_folder, nor among the
\* duplicate_paths of a result, whatever tier the result was matched by.
C4_ProtectedPathsExcluded ==
    /\ \A k \in DOMAIN gofp_calls :
          \A i \in DOMAIN gofp_calls[k].duplicate_paths :
              ~ProtectedCandidate(gofp_calls[k].duplicate_paths[i])
    /\ \A k \in DOMAIN results :
          \A i \in DOMAIN results[k].duplicate_paths :
              ~ProtectedCandidate(results[k].duplicate_paths[i])

\* the record of the media root has been looked up: its two protected
\* candidates are gone, the unprotected one is reported
C4_Witness ==
    /\ rpc = "done"
    /\ dup_report = Report_Folders
    /\ ProtectedCandidate(<<"/","m","e","d","i","a","/","M","o","v","i","e","s">>)
    /\ ProtectedCandidate(<<"/","m","e","d","i","a","/","T","V","/","t","v">>)
    /\ \E k \in DOMAIN results :
          /\ results[k].folder = <<"M","o","v","i","e","s">>
          /\ results[k].duplicate_paths = << <<"/","m","e","d","i","a","/","M","o","v","i","e","s","/","T","h","e"," ","M","o","v","i","e">> >>
          /\ gofp_calls[k].duplicate_paths = results[k].duplicate_paths

\* a later tier would match the folder against some catalog entry
LaterTierMatches(folder_name, duplicate_paths) ==
    \E j \in DOMAIN AllDetails :
        \/ NamesMatch(AllDetails[j].value.host_path, folder_name)
        \/ \E k \in DOMAIN duplicate_paths :
              PathsMatch(AllDetails[j].value.host_path, duplicate_paths[k], folder_name)

\* the "Match Type: " line the updated report carries for result number k
MatchTypeLine(k) ==
    SelectSeq(updated_report, LAMBDA l : StartsWith(l, <<"M","a","t","c","h"," ","T","y","p","e",":"," ">>))
        [Cardinality({ j \in 1..k : results[j].official_info # NoInfo })]

\* the entry the folder-name index holds under a name
IndexEntry(folder_name) ==
    folder_to_path_map[CHOOSE i \in DOMAIN folder_to_path_map :
                           folder_to_path_map[i].key = folder_name].value

\* result number k is a direct match that a later tier would match as well
DirectAndLater(k) ==
    /\ \E i \in DOMAIN folder_to_path_map : folder_to_path_map[i].key = results[k].folder
    /\ LaterTierMatches(results[k].folder, results[k].duplicate_paths)

DetailsOf(c) == IF c = "sonarr" THEN sonarr_series_details ELSE radarr_movie_details

\* the resolver has called the fetch of both catalogs
BothFetched == rpc \in {"lookup", "report", "done"}

\* C9: a catalog failure degrades, never aborts -- when the request to a
\* catalog fails (error status, timeout, transport failure) its fetch returns
\* an empty result and stores nothing; the other catalog is still queried; and
\* neither program stops with an unhandled fault because of it: the resolver
\* faults in its constructor only, the planner on an unparsable report or
\* size string only.
C9_CatalogFailureDegrades ==
    /\ \A c \in Catalogs :
          (catalog[c].kind \in Failures /\ fetch_result[c] # "not called")
              => fetch_result[c] = "empty" /\ DetailsOf(c) = <<>>
    /\ BothFetched => \A c \in Catalogs : api_keys[c] => \E i \in DOMAIN requests_sent :
                                                              requests_sent[i] = c
    /\ rpc = "fault" => loader = "undefined" /\ requests_sent = <<>>
    /\ \A c \in Catalogs :
          (catalog[c].kind \in Failures /\ paths_cache[c].fetched) => paths_cache[c].paths = {}
    /\ (paths_cache["sonarr"].fetched /\ catalog["sonarr"].kind \in Failures)
          => paths_cache["radarr"].fetched
    /\ ppc = "fault" =>
          \/ planner_entry = "main" /\ parse_report(report).raised
          \/ /\ pk \in DOMAIN groups
             /\ \E tup \in FilesOfTuples(groups[pk]) : format_size_bytes(tup[2]) = -1

\* Sonarr timed out, Radarr was still asked and answered, and the run went on
\* to an updated report that names the movie
C9_Witness ==
    /\ rpc = "done"
    /\ catalog["sonarr"].kind = "timeout"
    /\ requests_sent = <<"sonarr", "radarr">>
    /\ fetch_result["sonarr"] = "empty"
    /\ fetch_result["radarr"] = "details"
    /\ \E k \in DOMAIN results : results[k].official_info.title = E_Remake.title
    /\ updated_report # <<>>

\* C10: missing credentials are not a hard failure -- a resolver run with no
\* API key for one or both catalogs never stops with an unhandled fault, sends
\* no request to a catalog without key and holds no entries for it.
C10_MissingKeyIsNoFault ==
    (\E c \in Catalogs : ~api_keys[c])
        => /\ rpc # "fault"
           /\ \A c \in Catalogs :
                 ~api_keys[c] => /\ \A i \in DOMAIN requests_sent : requests_sent[i] # c
                                 /\ DetailsOf(c) = <<>>

\* the catalog path of a stored series entry: the path of the catalog entry
\* with its title
CatalogPathOf(title) ==
    (CHOOSE e \in { catalog["sonarr"].entries[i] : i \in DOMAIN catalog["sonarr"].entries } :
        e.title = title).path

\* the listed mappings whose container_path is a textual prefix of the path
PrefixHits(path) ==
    { i \in DOMAIN docker_mappings :
        /\ Len(docker_mappings[i].container_path) <= Len(path)
        /\ SubSeq(path, 1, Len(docker_mappings[i].container_path))
              = docker_mappings[i].container_path }

\* those of them with the longest container_path
LongestHits(path) ==
    { i \in PrefixHits(path) :
        \A j \in PrefixHits(path) :
            Len(docker_mappings[j].container_path) <= Len(docker_mappings[i].container_path) }

\* the path without the leading slashes
RECURSIVE StripLeadingSlashes(_)
StripLeadingSlashes(path) ==
    IF path # <<>> /\ path[1] = "/" THEN StripLeadingSlashes(Tail(path)) ELSE path

\* mapping number i applied to the path: its host_path joined with what
\* follows the container_path
Applied(i, path) ==
    LET host == docker_mappings[i].host_path
        rel  == StripLeadingSlashes(
                    SubSeq(path, Len(docker_mappings[i].container_path) + 1, Len(path)))
    IN  IF host[Len(host)] = "/" THEN host \o rel ELSE host \o <<"/">> \o rel

\* the mappings listed in another order
Reorderings ==
    { [i \in DOMAIN docker_mappings |-> docker_mappings[f[i]]] :
        f \in { g \in [DOMAIN docker_mappings -> DOMAIN docker_mappings] :
                    \A i, j \in DOMAIN docker_mappings : g[i] = g[j] => i = j } }

\* the original statement of C14: the host path stored for a catalog path is
\* that of a mapping with the longest prefixing container_path, the same for
\* every order of listing the mappings; an unprefixed path is unchanged.
C14_LongestPrefixAnyOrder ==
    \A k \in DOMAIN sonarr_series_details :
        LET path == CatalogPathOf(sonarr_series_details[k].key)
            host == sonarr_series_details[k].value.host_path
        IN  /\ PrefixHits(path) = {} => host = path
            /\ PrefixHits(path) # {} => \E i \in LongestHits(path) : host = Applied(i, path)
            /\ \A other \in Reorderings :
                  convert_container_path_to_host_path(path, other) = host

\* C14: path-mapping longest-prefix precedence -- the host path stored for a
\* catalog path is that of the mapping with the longest container_path among
\* those that textually prefix the path, the first listed of them when
\* several have that longest container_path; a path that no mapping prefixes
\* is stored unchanged.
C14_LongestPrefixFirstListed ==
    \A k \in DOMAIN sonarr_series_details :
        LET path == CatalogPathOf(sonarr_series_details[k].key)
            host == sonarr_series_details[k].value.host_path
        IN  IF PrefixHits(path) = {} THEN host = path
            ELSE host = Applied(Min(LongestHits(path)), path)

\* the series at /data/tv/anime/Show was stored with /data/tv listed before
\* /data/tv/anime
C14_Witness ==
    /\ docker_mappings = <<M_tv, M_anime>>
    /\ \E k \in DOMAIN sonarr_series_details :
          /\ CatalogPathOf(sonarr_series_details[k].key) = P_AnimeShow
          /\ sonarr_series_details[k].value.host_path = <<"/","m","n","t","/","a","n","i","m","e","/","S","h","o","w">>

(***************************************************************************)
(* Properties of the parallel scan.                                        *)
(***************************************************************************)
\* the entries a scan of the listing gives the bucket of name n, in the
\* order of discovery, from the k-th item of the listing on
RECURSIVE Discovered(_, _, _)
Discovered(listing, k, n) ==
    IF k > Len(listing) THEN <<>>
    ELSE (IF listing[k].is_file /\ HasVideoExtension(listing[k].path)
          THEN [j \in 1..RuleCount(listing[k].path, n) |-> listing[k].path]
          ELSE <<>>)
         \o Discovered(listing, k + 1, n)

\* the blocks of the merged futures from the k-th on, one after the other
RECURSIVE MergedBlocks(_, _)
MergedBlocks(n, k) ==
    IF k > Len(merge_order) THEN <<>>
    ELSE Discovered(RGlob(futures[merge_order[k]].path), 1, n) \o MergedBlocks(n, k + 1)

\* every folder name under the roots of the parallel scan
ParallelFolderNames ==
    UNION { UNION { { ParentName(RGlob(r)[i].path), GrandparentName(RGlob(r)[i].path) } :
                      i \in DOMAIN RGlob(r) } : r \in ParallelRootPool }

\* C12: concurrent scan merge preserves per-root order -- at every moment of
\* the parallel scan, for every folder name, the merged bucket is the
\* sequence of the blocks of the roots merged so far, in the order of their
\* merge, each block being all the entries of that root for the name in the
\* root's discovery order; no root is merged twice, and when the grouper is
\* called every valid root has been merged.
C12_MergePreservesRootOrder ==
    /\ \A n \in ParallelFolderNames \cup DOMAIN folder_map : Bucket(n) = MergedBlocks(n, 1)
    /\ \A j, k \in DOMAIN merge_order : merge_order[j] = merge_order[k] => j = k
    /\ xpc \in {"group", "returned"} /\ valid_paths # <<>>
          => { merge_order[k] : k \in DOMAIN merge_order } = DOMAIN valid_paths

\* /mnt/a and /mnt/d were scanned, the worker of /mnt/d completed first, and
\* the bucket of the folder name they share holds the entries of both
C12_Witness ==
    /\ xpc = "returned"
    /\ root_paths = <<Root_a, Root_d>>
    /\ merge_order = <<2, 1>>
    /\ Len(Bucket(N_ShowS01)) = 5
    /\ Bucket(N_ShowS01)[1] = Root_d \o Slash \o N_ShowS01 \o <<"/","e","1",".","m","k","v">>
    /\ Bucket(N_ShowS01)[3] = Root_a \o Slash \o N_ShowS01 \o <<"/","e","1",".","m","k","v">>

(***************************************************************************)
(* Further properties of the Normalizer and the Similarity Grouper.        *)
(***************************************************************************)
\* C21: normalization is idempotent -- every normalized key the grouper has
\* computed is left unchanged by clean_media_name.
C21_NormalizationIdempotent ==
    \A n \in DOMAIN cleaned_folders :
        clean_media_name(cleaned_folders[n]) = cleaned_folders[n]

\* the position of a folder name in the index
KeyIndex(name) == CHOOSE i \in DOMAIN folder_keys : folder_keys[i] = name

\* C22: a base is marked processed when its group is opened -- in every group,
\* emitted or being built, every similar member comes later in index order
\* than the group's base: a name that was taken as base is never a similar
\* member of a group opened by a later base.
C22_MembersFollowBase ==
    \A k \in DOMAIN GroupsSoFar :
        \A m \in DOMAIN GroupsSoFar[k].similar_folders :
            KeyIndex(GroupsSoFar[k].similar_folders[m]) > KeyIndex(GroupsSoFar[k].base_folder)

\* C23: greedy base-only clustering -- in every group, emitted or being
\* built, similar_folders and similarity_scores have the same length, the
\* i-th score is the ratio of the base's key to the i-th member's key and it
\* exceeds 0.9 (a member is in the group by its similarity to the base alone);
\* and on the index Top.Gear.720p, Top Gears, Stop Gears, where the second
\* is similar to the first and the third only to the second, the one group
\* returned is base Top.Gear.720p with the member Top Gears.
C23_BaseOnlyClustering ==
    /\ \A k \in DOMAIN GroupsSoFar :
          /\ Len(GroupsSoFar[k].similar_folders) = Len(GroupsSoFar[k].similarity_scores)
          /\ \A m \in DOMAIN GroupsSoFar[k].similar_folders :
                /\ GroupsSoFar[k].similarity_scores[m]
                      = ratio(cleaned_folders[GroupsSoFar[k].base_folder],
                              cleaned_folders[GroupsSoFar[k].similar_folders[m]])
                /\ ExceedsThreshold(GroupsSoFar[k].similarity_scores[m])
    /\ gpc = "returned" /\ folder_keys = <<N_TopGear, N_TopGears, N_StopGears>>
          => /\ Len(similar_groups) = 1
             /\ similar_groups[1].base_folder = N_TopGear
             /\ similar_groups[1].similar_folders = <<N_TopGears>>

\* the grouper has returned on the index Top.Gear.720p, Top Gears, Stop Gears
C23_Witness ==
    /\ gpc = "returned"
    /\ folder_keys = <<N_TopGear, N_TopGears, N_StopGears>>
    /\ Len(similar_groups) = 1
    /\ similar_groups[1].similarity_scores = << <<16, 17>> >>

\* C24: aggregated file list -- the 'files' list of every returned group
\* holds the entries of the base's bucket followed by those of the bucket of
\* each similar member, in the order the members joined, and nothing else
\* (every bucket of the drawn index holds the one file FileIn(name)).
C24_AggregatedFiles ==
    gpc = "returned"
        => \A k \in DOMAIN similar_groups :
              similar_groups[k].files
                  = [i \in 1..(1 + Len(similar_groups[k].similar_folders)) |->
                        FileIn(GroupNames(similar_groups[k])[i])]

\* C28: grouping leaves the folder index unchanged -- when
\* find_similar_media_folders has returned, every bucket of folder_map holds
\* the entries it held before the call.
C28_IndexUnchanged ==
    gpc = "returned" => \A n \in DOMAIN folder_map : folder_map[n] = <<FileIn(n)>>

(***************************************************************************)
(* Further properties of the Cleanup Planner.                              *)
(***************************************************************************)
\* the directories catalog c reports: the paths of the titles of a
\* successful answer
ReportedPaths(c) ==
    IF catalog[c].kind # "ok" THEN {}
    ELSE { normalize_path(catalog[c].entries[i].path) :
             i \in { j \in DOMAIN catalog[c].entries : catalog[c].entries[j].object } }

\* the catalog that manages a file: the series catalog before the movie catalog
ManagedBy(file) ==
    IF PathParent(normalize_path(file)) \in ReportedPaths("sonarr") THEN "sonarr"
    ELSE IF PathParent(normalize_path(file)) \in ReportedPaths("radarr") THEN "radarr"
    ELSE "UNMANAGED"

\* C25: managed detection -- every status line of the script reports its file
\* as managed by the catalog that answered with success and returned a title
\* whose path is the parent directory of the file (the series catalog before
\* the movie catalog), and as unmanaged when no catalog returned such a title.
C25_ManagedDetection ==
    \A i \in DOMAIN script :
        script[i].kind \in {"base_status", "similar_status"}
            => script[i].note = ManagedBy(script[i].file)

\* the files group number g has a status line for that reports them managed
ReportedManaged(g) ==
    { script[i].file : i \in { j \in DOMAIN script :
                                 /\ script[j].group = g
                                 /\ script[j].kind \in {"base_status", "similar_status"}
                                 /\ script[j].note # "UNMANAGED" } }

InReport(file) == \E i \in DOMAIN report_file : report_file[i] = FileLine(file)

\* C26: the parallel scanner's report writer completes -- write_report ends
\* without an unhandled exception, and the report it has written for a
\* non-empty list of groups holds, for every similar folder of every group,
\* the lines of the files of that folder.
C26_ReportWriterCompletes ==
    /\ xpc # "fault"
    /\ xpc = "exited"
          => \A k \in DOMAIN similar_groups :
                \A m \in DOMAIN similar_groups[k].similar_folders :
                    \A i \in DOMAIN folder_map[similar_groups[k].similar_folders[m]] :
                        InReport(folder_map[similar_groups[k].similar_folders[m]][i])

\* the index the main thread builds when the futures are merged in the order
\* of their submission, from future number k on
RECURSIVE MergedInSubmissionOrder(_, _)
MergedInSubmissionOrder(k, km) ==
    IF k > Len(futures) THEN km
    ELSE MergedInSubmissionOrder(k + 1, MergeResult(km, futures[k].result, 1))

\* the groups find_similar_media_folders returns on an index with the given
\* key order, each as <<base, set of similar members>>, from key number i on
\* with the names in `done` processed
RECURSIVE GroupsOn(_, _, _)
GroupsOn(keys, i, done) ==
    IF i > Len(keys) THEN {}
    ELSE LET base    == keys[i]
             members == { keys[j] : j \in { n \in DOMAIN keys :
                             /\ keys[n] # base
                             /\ keys[n] \notin done
                             /\ clean_media_name(keys[n]) # <<>>
                             /\ ExceedsThreshold(ratio(clean_media_name(base),
                                                       clean_media_name(keys[n]))) } }
         IN  IF base \in done \/ clean_media_name(base) = <<>> \/ members = {}
             THEN GroupsOn(keys, i + 1, done)
             ELSE { <<base, members>> } \cup GroupsOn(keys, i + 1, done \cup members \cup {base})

\* the groups returned, each as <<base, set of similar members>>
ReturnedGroups ==
    { << similar_groups[k].base_folder,
         { similar_groups[k].similar_folders[m] : m \in DOMAIN similar_groups[k].similar_folders } >> :
      k \in DOMAIN similar_groups }

\* C29: determinism under worker scheduling -- whatever the order in which
\* the scan workers complete, the groups scan_for_duplicates returns (base
\* and similar members) are those of the run on the same roots in which the
\* workers complete in the order of their submission.
C29_GroupsIndependentOfCompletionOrder ==
    xpc = "returned" /\ valid_paths # <<>>
        => ReturnedGroups = GroupsOn(MergedInSubmissionOrder(1, << <<>>, <<>> >>)[1], 1, {})

(***************************************************************************)
(* Further properties of the Official-Path Resolver.                       *)
(***************************************************************************)
\* the type of the entries a catalog's fetch stores
EntryType(c) == IF c = "sonarr" THEN T_series ELSE T_movie

\* C30: a failed catalog fetch leaves no partial entries -- when the fetch of
\* a catalog has returned an empty result, the catalog's title table is empty
\* and the folder-name index holds no entry of that catalog.
C30_FailedFetchLeavesNothing ==
    \A c \in Catalogs :
        fetch_result[c] = "empty"
            => /\ DetailsOf(c) = <<>>
               /\ \A i \in DOMAIN folder_to_path_map :
                     folder_to_path_map[i].value.type # EntryType(c)

====
